---- MODULE Spec2Model ----
(***************************************************************************)
(* A model of webchanges' job model (webchanges/jobs.py): resolution of a  *)
(* job declaration to a job variant (JobBase.unserialize / from_dict), the *)
(* job identity (get_guid), the per-variant error classification           *)
(* (ignore_error), URL and shell retrieval (UrlJob.retrieve,               *)
(* ShellJob.retrieve), the runner's bookkeeping of the cache entry (tries, *)
(* data, etag), the defaults of the configuration (with_defaults) and      *)
(* browser retrieval (BrowserJob._retrieve).                               *)
(*                                                                         *)
(* Python values are modelled as strings in declarations ("None", "False", *)
(* "True" and other non-empty strings); a declaration (a Python dict,      *)
(* which keeps insertion order) is a sequence of <<key, value>> pairs with *)
(* pairwise distinct keys.                                                 *)
(***************************************************************************)
EXTENDS Integers, Sequences, FiniteSets, TLC

VARIABLES
    pc,         \* position of the modelled program
    data,       \* the declaration handed to JobBase.unserialize
    result,     \* what unserialize returned or raised
    ijob,       \* the job whose ignore_error is called
    exc,        \* the exception handed to ignore_error
    verdict,    \* what ignore_error returned
    gjobs,      \* the jobs whose get_guid is called
    guids,      \* per job, what its calls of get_guid returned, in order
    runjob,         \* the job the runner executes (retrieval changes its attributes)
    cache_storage,  \* the cache store: GUID -> entry
    clock,          \* the time: the number of the next execution
    executed,       \* the job state of the latest execution
    report,         \* the results reported to the user, in order
    log,            \* what the transport did in each execution, in order
    heap,       \* the dict objects: reference -> contents (dicts are shared by reference)
    config,     \* the configuration handed to with_defaults
    ojob,       \* the job whose with_defaults is called
    njob,       \* the job with_defaults returned
    dpc,        \* position of the caller of with_defaults
    bjobs,      \* the browser jobs retrieved in parallel
    bstate,     \* per browser job: position in _retrieve, its browser, what it raised
    environ,    \* os.environ['PYPPETEER_CHROMIUM_REVISION'], process-wide
    pyppeteer   \* the revision the pyppeteer module read when it was imported

resolveVars == <<pc, data, result>>

ignoreVars == <<ijob, exc, verdict>>

guidVars == <<gjobs, guids>>

runVars == <<runjob, cache_storage, clock, executed, report, log>>

defaultsVars == <<heap, config, ojob, njob, dpc>>

browserVars == <<bjobs, bstate, environ, pyppeteer>>

vars == <<pc, data, result, ijob, exc, verdict, gjobs, guids,
         runjob, cache_storage, clock, executed, report, log,
         heap, config, ojob, njob, dpc, bjobs, bstate, environ, pyppeteer>>

(***************************************************************************)
(* Bounds                                                                  *)
(***************************************************************************)
MaxDeclLen == 3

MaxGuidCalls == 2

MaxRuns == 3

MaxResponses == 2

(***************************************************************************)
(* Python truthiness of a declared value.                                  *)
(***************************************************************************)
None == "None"

Truthy(v) == v \notin {"None", "False", ""}

(***************************************************************************)
(* dict operations on a declaration                                        *)
(***************************************************************************)
Keys(d) == {d[i][1] : i \in 1..Len(d)}

Has(d, k) == k \in Keys(d)

Index(d, k) == CHOOSE i \in 1..Len(d) : d[i][1] = k

\* dict.get(k, default)
GetOr(d, k, default) == IF Has(d, k) THEN d[Index(d, k)][2] ELSE default

\* dict.get(k)
Get(d, k) == GetOr(d, k, None)

\* d[k] = v : an existing key keeps its position, a new key goes last
SetItem(d, k, v) ==
    IF Has(d, k) THEN [d EXCEPT ![Index(d, k)] = <<k, v>>] ELSE Append(d, <<k, v>>)

\* d.pop(k, None)
Pop(d, k) == SelectSeq(d, LAMBDA kv : kv[1] # k)

RECURSIVE PopAll(_, _)
PopAll(d, ks) ==
    IF ks = {} THEN d
    ELSE LET k == CHOOSE x \in ks : TRUE IN PopAll(Pop(d, k), ks \ {k})

(***************************************************************************)
(* The registered variants and their directives                            *)
(***************************************************************************)
\* list(cls.__subclasses__.values())[1:] : the classes in definition order,
\* without the abstract Job
Subclasses == <<"url", "browser", "shell">>

JobOptional ==
    {"index_number", "name", "note", "additions_only", "compared_versions",
     "contextlines", "deletions_only", "diff_filter", "diff_tool", "filter",
     "markdown_padded_tables", "max_tries", "is_markdown",
     "ignore_connection_errors", "ignore_http_error_codes",
     "ignore_timeout_errors", "ignore_too_many_redirects"}

\* __required__, in declaration order
Required(kind) ==
    CASE kind = "url"     -> <<"url">>
      [] kind = "browser" -> <<"url", "use_browser">>
      [] kind = "shell"   -> <<"command">>

RequiredSet(kind) == {Required(kind)[i] : i \in 1..Len(Required(kind))}

\* __optional__ : the variant's own directives and the ones inherited from Job
Optional(kind) ==
    JobOptional \cup
    CASE kind = "url" ->
            {"cookies", "data", "encoding", "headers", "http_proxy", "https_proxy",
             "ignore_cached", "method", "no_redirects", "ssl_no_verify", "timeout",
             "user_visible_url"}
      [] kind = "browser" ->
            {"block_elements", "chromium_revision", "cookies", "headers",
             "http_proxy", "https_proxy", "ignore_https_errors", "navigate",
             "switches", "timeout", "user_visible_url", "user_data_dir",
             "wait_for", "wait_for_navigation", "wait_until"}
      [] kind = "shell" -> {}

(***************************************************************************)
(* JobBase.unserialize                                                     *)
(***************************************************************************)
\* mutant of NavigateRewrite: the deprecated directive is not rewritten
NavigateRewrite_none(d) == d

\* Backwards compatibility with the 'navigate' directive
NavigateRewrite(d) ==
    IF Truthy(Get(d, "navigate")) /\ ~Truthy(Get(d, "use_browser"))
    THEN SetItem(SetItem(d, "url", GetOr(d, "url", Get(d, "navigate"))),
                 "use_browser", "True")
    ELSE d

\* mutant of KindRewrite: the deprecated directive stays in the declaration
KindRewrite_kept(d) == d

\* Backwards compatibility with the 'kind' directive
KindRewrite(d) == IF Has(d, "kind") THEN Pop(d, "kind") ELSE d

Rewritten(d) == KindRewrite(NavigateRewrite(d))

\* mutants of Matches: a required directive counts when it is not None / when its key is declared
MatchesNotNone(d, kind) == \A r \in RequiredSet(kind) : Get(d, r) # None

MatchesDeclared(d, kind) == \A r \in RequiredSet(kind) : Has(d, r)

\* all(data.get(required) for required in subclass.__required__)
Matches(d, kind) == \A r \in RequiredSet(kind) : Truthy(Get(d, r))

matched_subclasses(d) == SelectSeq(Subclasses, LAMBDA kind : Matches(d, kind))

\* [data.get(required) is not None for required in match.__required__].count(True)
number_matched(d, kind) == Cardinality({r \in RequiredSet(kind) : Get(d, r) # None})

\* mutant of FirstOfHighest: the sort without reverse=True
FirstOfLowest(d, m) ==
    LET best == CHOOSE i \in 1..Len(m) :
                    /\ \A j \in 1..Len(m) : number_matched(d, m[j]) >= number_matched(d, m[i])
                    /\ \A j \in 1..(i - 1) : number_matched(d, m[j]) > number_matched(d, m[i])
    IN m[best]

\* mutant of FirstOfHighest: an unstable sort, the last of the highest comes first
LastOfHighest(d, m) ==
    LET best == CHOOSE i \in 1..Len(m) :
                    /\ \A j \in 1..Len(m) : number_matched(d, m[j]) <= number_matched(d, m[i])
                    /\ \A j \in (i + 1)..Len(m) : number_matched(d, m[j]) < number_matched(d, m[i])
    IN m[best]

\* sorted(number_matched.items(), key=lambda x: x[1], reverse=True)[0][0] :
\* the sort is stable, so the first of the candidates with the highest count
FirstOfHighest(d, m) ==
    LET best == CHOOSE i \in 1..Len(m) :
                    /\ \A j \in 1..Len(m) : number_matched(d, m[j]) <= number_matched(d, m[i])
                    /\ \A j \in 1..(i - 1) : number_matched(d, m[j]) < number_matched(d, m[i])
    IN m[best]

job_subclass(d) ==
    LET m == matched_subclasses(d)
    IN IF Len(m) = 1 THEN m[1]
       ELSE IF Len(m) > 1 THEN FirstOfHighest(d, m)
       ELSE "none"

\* remove extra required directives ("falsy")
ExtraRequired(kind) ==
    UNION {RequiredSet(Subclasses[i]) : i \in {j \in 1..Len(Subclasses) : Subclasses[j] # kind}}
        \ RequiredSet(kind)

\* mutant of Stripped: the directives of the other variants stay in the declaration
Stripped_none(d, kind) == d

Stripped(d, kind) == PopAll(d, ExtraRequired(kind))

ValueError(msg, key, d) == [status |-> "ValueError", msg |-> msg, key |-> key, data |-> d]

\* JobBase.__init__ : every required directive must be among the keyword arguments
JobInit(kind, d) ==
    LET missing == {i \in 1..Len(Required(kind)) : ~Has(d, Required(kind)[i])}
    IN IF missing # {}
       THEN LET first == CHOOSE i \in missing : \A j \in missing : i <= j
            IN ValueError("required_missing", Required(kind)[first], d)
       ELSE [status |-> "job", kind |-> kind, attrs |-> d]

\* mutant of from_dict: unrecognized keys are dropped instead of being fatal
from_dict_dropping(kind, d) ==
    JobInit(kind, SelectSeq(d, LAMBDA kv : kv[1] \in (RequiredSet(kind) \cup Optional(kind))))

\* JobBase.from_dict : the first unrecognized key, in the order of the dict, is fatal
from_dict(kind, d) ==
    LET bad == {i \in 1..Len(d) : d[i][1] \notin (RequiredSet(kind) \cup Optional(kind))}
    IN IF bad # {}
       THEN LET first == CHOOSE i \in bad : \A j \in bad : i <= j
            IN ValueError("unrecognized", d[first][1], d)
       ELSE JobInit(kind, d)

unserialize(d0) ==
    LET d    == Rewritten(d0)
        kind == job_subclass(d)
    IN IF kind = "none"
       THEN IF Len(d) = 1
            THEN ValueError("no_value_or_no_match", None, d)
            ELSE ValueError("no_match", None, d)
       ELSE from_dict(kind, Stripped(d, kind))

(***************************************************************************)
(* Python values of mixed type (the ignore_http_error_codes directive is   *)
(* an int, a str or a list): a value is a record of its type t, its number *)
(* n (int, bool), its characters s (str) and its items l (list).           *)
(***************************************************************************)
PNone == [t |-> "none", n |-> 0, s |-> <<>>, l |-> <<>>]

PInt(i) == [t |-> "int", n |-> i, s |-> <<>>, l |-> <<>>]

PBool(b) == [t |-> "bool", n |-> IF b THEN 1 ELSE 0, s |-> <<>>, l |-> <<>>]

PStr(cs) == [t |-> "str", n |-> 0, s |-> cs, l |-> <<>>]

PList(items) == [t |-> "list", n |-> 0, s |-> <<>>, l |-> items]

\* bool(x)
PyTruthy(x) ==
    CASE x.t = "none" -> FALSE
      [] x.t \in {"int", "bool"} -> x.n # 0
      [] x.t = "str" -> x.s # <<>>
      [] x.t = "list" -> x.l # <<>>

\* x == y : values of a number type compare by number, a str equals only a str
PyEq(x, y) ==
    \/ x.t \in {"int", "bool"} /\ y.t \in {"int", "bool"} /\ x.n = y.n
    \/ x.t = "str" /\ y.t = "str" /\ x.s = y.s
    \/ x.t = "none" /\ y.t = "none"

\* x in xs, for a list xs of values
PyIn(x, xs) == \E i \in 1..Len(xs) : PyEq(x, xs[i])

Digit(d) ==
    CASE d = 0 -> "0" [] d = 1 -> "1" [] d = 2 -> "2" [] d = 3 -> "3" [] d = 4 -> "4"
      [] d = 5 -> "5" [] d = 6 -> "6" [] d = 7 -> "7" [] d = 8 -> "8" [] d = 9 -> "9"

\* str(n) for a natural number n
RECURSIVE Digits(_)
Digits(n) == IF n < 10 THEN <<Digit(n)>> ELSE Append(Digits(n \div 10), Digit(n % 10))

\* str(x)
PyStr(x) ==
    CASE x.t = "int"  -> Digits(x.n)
      [] x.t = "bool" -> IF x.n = 1 THEN <<"T", "r", "u", "e">> ELSE <<"F", "a", "l", "s", "e">>
      [] x.t = "str"  -> x.s
      [] x.t = "none" -> <<"N", "o", "n", "e">>

\* s.split(',')
RECURSIVE Split(_)
Split(cs) ==
    IF \A i \in 1..Len(cs) : cs[i] # ","
    THEN <<cs>>
    ELSE LET c == CHOOSE i \in 1..Len(cs) : cs[i] = "," /\ \A j \in 1..(i - 1) : cs[j] # ","
         IN <<SubSeq(cs, 1, c - 1)>> \o Split(SubSeq(cs, c + 1, Len(cs)))

\* s.strip()
RECURSIVE Strip(_)
Strip(cs) ==
    IF cs = <<>> THEN cs
    ELSE IF Head(cs) = " " THEN Strip(Tail(cs))
    ELSE IF cs[Len(cs)] = " " THEN Strip(SubSeq(cs, 1, Len(cs) - 1))
    ELSE cs

\* s.lower()
Lower(cs) == [i \in 1..Len(cs) |-> IF cs[i] = "X" THEN "x" ELSE cs[i]]

(***************************************************************************)
(* Exceptions. The classes of requests.exceptions that jobs.py tests with  *)
(* isinstance, with the subclasses requests raises for them.               *)
(***************************************************************************)
Exception(type, status, arg) == [type |-> type, status |-> status, arg |-> arg]

IsInstance(e, class) ==
    CASE class = "ConnectionError"  -> e.type \in {"ConnectionError", "ConnectTimeout", "SSLError"}
      [] class = "Timeout"          -> e.type \in {"Timeout", "ConnectTimeout", "ReadTimeout"}
      [] class = "TooManyRedirects" -> e.type = "TooManyRedirects"
      [] class = "HTTPError"        -> e.type = "HTTPError"
      [] class = "RequestException" ->
            e.type \in {"ConnectionError", "ConnectTimeout", "SSLError", "Timeout",
                        "ReadTimeout", "TooManyRedirects", "HTTPError"}
      [] OTHER -> e.type = class

(***************************************************************************)
(* ignore_error                                                            *)
(***************************************************************************)
\* JobBase.ignore_error (ShellJob inherits it)
JobBase_ignore_error(job, e) == "False"

\* ignored_codes of UrlJob.ignore_error and BrowserJob.ignore_error
ignored_codes(codes) ==
    IF codes.t = "str"
    THEN LET parts == Split(codes.s)
         IN [i \in 1..Len(parts) |-> PStr(Lower(Strip(parts[i])))]
    ELSE IF codes.t = "list"
    THEN [i \in 1..Len(codes.l) |-> PStr(Lower(Strip(PyStr(codes.l[i]))))]
    ELSE <<>>

\* mutant of http_error_verdict: the class wildcard is tested for membership
http_error_verdict_class(status_code, codes) ==
    IF \/ PyIn(PStr(PyStr(PInt(status_code))), codes)
       \/ PyIn(PStr(PyStr(PInt(status_code \div 100)) \o <<"x", "x">>), codes)
    THEN "True" ELSE "False"

\* str(status_code) in ignored_codes or f'{(status_code // 100) in ignored_codes}xx'
http_error_verdict(status_code, codes) ==
    IF PyIn(PStr(PyStr(PInt(status_code))), codes)
    THEN "True"
    ELSE (IF PyIn(PInt(status_code \div 100), codes) THEN "True" ELSE "False") \o "xx"

\* the HTTPError branch of UrlJob.ignore_error
ignore_http_error(job, status_code) ==
    IF /\ job.ignore_http_error_codes.t \in {"int", "bool"}
       /\ PyEq(job.ignore_http_error_codes, PInt(status_code))
    THEN "True"
    ELSE http_error_verdict(status_code, ignored_codes(job.ignore_http_error_codes))

\* mutant of UrlJob_ignore_error: any ignore_* flag makes every request error ignorable
UrlJob_ignore_error_any(job, e) ==
    IF /\ IsInstance(e, "RequestException")
       /\ \/ Truthy(job.ignore_connection_errors) \/ Truthy(job.ignore_timeout_errors)
          \/ Truthy(job.ignore_too_many_redirects) \/ PyTruthy(job.ignore_http_error_codes)
    THEN "True" ELSE "False"

UrlJob_ignore_error(job, e) ==
    IF IsInstance(e, "ConnectionError") /\ Truthy(job.ignore_connection_errors) THEN "True"
    ELSE IF IsInstance(e, "Timeout") /\ Truthy(job.ignore_timeout_errors) THEN "True"
    ELSE IF IsInstance(e, "TooManyRedirects") /\ Truthy(job.ignore_too_many_redirects) THEN "True"
    ELSE IF IsInstance(e, "HTTPError") /\ PyTruthy(job.ignore_http_error_codes)
    THEN ignore_http_error(job, e.status)
    ELSE "False"

CHROMIUM_CONNECTION_ERRORS ==
    {"CONNECTION_CLOSED", "CONNECTION_RESET", "CONNECTION_REFUSED", "CONNECTION_ABORTED",
     "CONNECTION_FAILED", "NAME_NOT_RESOLVED", "INTERNET_DISCONNECTED", "SSL_PROTOCOL_ERROR",
     "ADDRESS_INVALID", "ADDRESS_UNREACHABLE", "SSL_CLIENT_AUTH_CERT_NEEDED",
     "TUNNEL_CONNECTION_FAILED", "NO_SSL_VERSIONS_ENABLED", "SSL_VERSION_OR_CIPHER_MISMATCH",
     "SSL_RENEGOTIATION_REQUESTED", "PROXY_AUTH_UNSUPPORTED", "CERT_ERROR_IN_SSL_RENEGOTIATION",
     "BAD_SSL_CLIENT_AUTH_CERT", "CONNECTION_TIMED_OUT", "HOST_RESOLVER_QUEUE_TOO_LARGE",
     "SOCKS_CONNECTION_FAILED", "SOCKS_CONNECTION_HOST_UNREACHABLE", "ALPN_NEGOTIATION_FAILED",
     "SSL_NO_RENEGOTIATION", "WINSOCK_UNEXPECTED_WRITTEN_BYTES", "SSL_DECOMPRESSION_FAILURE_ALERT",
     "SSL_BAD_RECORD_MAC_ALERT", "PROXY_AUTH_REQUESTED", "PROXY_CONNECTION_FAILED",
     "MANDATORY_PROXY_CONFIGURATION_FAILED", "PRECONNECT_MAX_SOCKET_LIMIT",
     "SSL_CLIENT_AUTH_PRIVATE_KEY_ACCESS_DENIED", "SSL_CLIENT_AUTH_CERT_NO_PRIVATE_KEY",
     "PROXY_CERTIFICATE_INVALID", "NAME_RESOLUTION_FAILED", "NETWORK_ACCESS_DENIED",
     "TEMPORARILY_THROTTLED", "HTTPS_PROXY_TUNNEL_RESPONSE_REDIRECT",
     "SSL_CLIENT_AUTH_SIGNATURE_FAILED", "MSG_TOO_BIG", "WS_PROTOCOL_ERROR", "ADDRESS_IN_USE",
     "SSL_HANDSHAKE_NOT_COMPLETED", "SSL_BAD_PEER_PUBLIC_KEY", "SSL_PINNED_KEY_NOT_IN_CERT_CHAIN",
     "CLIENT_AUTH_CERT_TYPE_UNSUPPORTED", "SSL_DECRYPT_ERROR_ALERT", "WS_THROTTLE_QUEUE_TOO_LARGE",
     "SSL_SERVER_CERT_CHANGED", "SSL_UNRECOGNIZED_NAME_ALERT",
     "SOCKET_SET_RECEIVE_BUFFER_SIZE_ERROR", "SOCKET_SET_SEND_BUFFER_SIZE_ERROR",
     "SOCKET_RECEIVE_BUFFER_SIZE_UNCHANGEABLE", "SOCKET_SEND_BUFFER_SIZE_UNCHANGEABLE",
     "SSL_CLIENT_AUTH_CERT_BAD_FORMAT", "ICANN_NAME_COLLISION", "SSL_SERVER_CERT_BAD_FORMAT",
     "CT_STH_PARSING_FAILED", "CT_STH_INCOMPLETE", "UNABLE_TO_REUSE_CONNECTION_FOR_PROXY_AUTH",
     "CT_CONSISTENCY_PROOF_PARSING_FAILED", "SSL_OBSOLETE_CIPHER", "WS_UPGRADE",
     "READ_IF_READY_NOT_IMPLEMENTED", "NO_BUFFER_SPACE", "SSL_CLIENT_AUTH_NO_COMMON_ALGORITHMS",
     "EARLY_DATA_REJECTED", "WRONG_VERSION_ON_EARLY_DATA", "TLS13_DOWNGRADE_DETECTED",
     "SSL_KEY_USAGE_INCOMPATIBLE"}

\* ignored_codes of BrowserJob.ignore_error
BrowserJob_ignored_codes(codes) ==
    IF codes.t = "str"
    THEN [i \in 1..Len(Split(codes.s)) |-> PStr(Lower(Strip(Split(codes.s)[i])))]
    ELSE IF codes.t = "list"
    THEN [i \in 1..Len(codes.l) |-> PStr(Lower(Strip(PyStr(codes.l[i]))))]
    ELSE <<>>

\* the BrowserResponseError branch of BrowserJob.ignore_error
BrowserJob_ignore_http_error(job, status_code) ==
    IF /\ job.ignore_http_error_codes.t \in {"int", "bool"}
       /\ PyEq(job.ignore_http_error_codes, PInt(status_code))
    THEN "True"
    ELSE LET codes == BrowserJob_ignored_codes(job.ignore_http_error_codes)
         IN IF PyIn(PStr(PyStr(PInt(status_code))), codes)
            THEN "True"
            ELSE (IF PyIn(PInt(status_code \div 100), codes) THEN "True" ELSE "False") \o "xx"

BrowserJob_ignore_error(job, e) ==
    IF IsInstance(e, "PageError")
    THEN IF /\ Truthy(job.ignore_connection_errors)
            /\ \E error \in CHROMIUM_CONNECTION_ERRORS : e.arg = "net::ERR_" \o error
         THEN "True"
         ELSE IF Truthy(job.ignore_timeout_errors) /\ e.arg = "net::ERR_TIMED_OUT" THEN "True"
         ELSE IF Truthy(job.ignore_too_many_redirects) /\ e.arg = "net::ERR_TOO_MANY_REDIRECTS"
         THEN "True"
         ELSE "False"
    ELSE IF IsInstance(e, "BrowserResponseError") /\ PyTruthy(job.ignore_http_error_codes)
    THEN BrowserJob_ignore_http_error(job, e.status)
    ELSE "False"

\* job.ignore_error(exception), dispatched on the job's class
ignore_error(job, e) ==
    CASE job.kind = "url"     -> UrlJob_ignore_error(job, e)
      [] job.kind = "browser" -> BrowserJob_ignore_error(job, e)
      [] job.kind = "shell"   -> JobBase_ignore_error(job, e)

(***************************************************************************)
(* Jobs: the attributes of a job object, with the class-level defaults     *)
(***************************************************************************)
\* a text of n times the character c (a title, a name); no text when n = 0
Text(c, n) == [c |-> c, n |-> n]

NoText == Text("", 0)

\* text[:limit]
Truncated(text, limit) == Text(text.c, IF text.n > limit THEN limit ELSE text.n)

HeaderNames ==
    {"User-Agent", "If-None-Match", "If-Modified-Since", "Cache-Control", "Expires",
     "Content-Type"}

Absent == "absent"

\* headers: None, or a case-insensitive dict (a header that is not set maps to Absent)
NoHeaders == [none |-> TRUE, map |-> [h \in HeaderNames |-> Absent]]

DefaultJob(kind) ==
    [kind |-> kind,
     url |-> "", command |-> "", user_visible_url |-> "",
     name |-> NoText, timeout |-> PNone,
     cookies |-> PNone, data |-> "None", filter |-> <<>>, headers |-> NoHeaders,
     ignore_cached |-> "None", method |-> "None",
     ignore_connection_errors |-> "None",
     ignore_http_error_codes |-> PNone,
     ignore_timeout_errors |-> "None",
     ignore_too_many_redirects |-> "None",
     chromium_revision |-> "0", wait_for |-> "None"]

(***************************************************************************)
(* Job identity                                                            *)
(***************************************************************************)
\* mutant of UrlJob_get_location: the url, whatever the user_visible_url
UrlJob_get_location_url(job) == job.url

\* UrlJob.get_location and BrowserJob.get_location
UrlJob_get_location(job) == IF Truthy(job.user_visible_url) THEN job.user_visible_url ELSE job.url

ShellJob_get_location(job) == job.command

get_location(job) ==
    CASE job.kind \in {"url", "browser"} -> UrlJob_get_location(job)
      [] job.kind = "shell"              -> ShellJob_get_location(job)

\* hashlib.sha1(location.encode()).hexdigest(), on the location strings of the model
Sha1(location) ==
    CASE location = "u1" -> "c5ea71554c774daf7fab320fc3476afc0617eb00"
      [] location = "u2" -> "b9c69e5488ff88b92096f1137382e67fe1172fa6"
      [] location = "v1" -> "5a6df720540c20d95d530d3fd6885511223d5d20"
      [] location = "c1" -> "2f22765d04931a078909145ca628d2264c852d7d"
      [] location = "f1" -> "c09bb890b096f7306f688cc6d1dad34e7e52a223"
      [] location = "ftp1" -> "1e1b7519db908c5e73fef47cdfd3af92d9f6aacb"

get_guid(job) == Sha1(get_location(job))

(***************************************************************************)
(* Retrieval. What the transport (HTTP client, file system, FTP client,    *)
(* subprocess) does in one execution is an input t:                        *)
(*   kind "response": an HTTP response of status t.status, body t.body,    *)
(*                    ETag header t.etag, after redirects iff t.redirected *)
(*   kind "raise":    the transport raises an exception of type t.raises   *)
(*   kind "content":  the file or FTP file is read, its content is t.body  *)
(*   kind "exit":     the command exits with t.status, its output is t.body*)
(***************************************************************************)
Transport(kind, status, body, etag, redirected, raises) ==
    [kind |-> kind, status |-> status, body |-> body, etag |-> etag,
     redirected |-> redirected, raises |-> raises]

NoException == Exception("none", 0, "")

NoContent == [form |-> "none", body |-> ""]

NoRequest ==
    [sent |-> FALSE, method |-> "", headers |-> [h \in HeaderNames |-> Absent],
     timeout |-> PNone]

\* what retrieve leaves behind: the job with its changed attributes, the request
\* it sent, and the exception it raised or the (data, etag) it returned
Retrieved(j, request, raised, content, etag) ==
    [job |-> j, request |-> request, raised |-> raised, content |-> content, etag |-> etag]

\* urlparse(self.url).scheme
Scheme(url) ==
    CASE url = "f1"   -> "file"
      [] url = "ftp1" -> "ftp"
      [] OTHER        -> "https"

\* FilterBase.filter_chain_needs_bytes(self.filter)
filter_chain_needs_bytes(filter) == \E i \in 1..Len(filter) : filter[i] \in {"pdf2text", "ocr"}

\* email.utils.formatdate(timestamp)
formatdate(timestamp) == "date:" \o ToString(timestamp)

\* re.search(r'<title.*?>(.+?)</title>', response.text).group(1), NoText without a match
Title(body) == IF body = "d1" THEN Text("t", 61) ELSE NoText

CaseInsensitiveDict(headers) == [none |-> FALSE, map |-> headers.map]

\* mutant of RequestHeaders: the hints are sent whatever ignore_cached and tries are
RequestHeaders_conditional(j, job_state, time) ==
    LET h0 == CaseInsensitiveDict(j.headers).map
        h1 == IF h0["User-Agent"] = Absent THEN [h0 EXCEPT !["User-Agent"] = "webchanges"] ELSE h0
        h2 == IF Truthy(job_state.old_etag)
              THEN [h1 EXCEPT !["If-None-Match"] = job_state.old_etag] ELSE h1
    IN IF job_state.old_timestamp.t # "none"
       THEN [h2 EXCEPT !["If-Modified-Since"] = formatdate(job_state.old_timestamp.n)]
       ELSE h2

\* the conditional-fetch headers of UrlJob.retrieve
RequestHeaders(j, job_state, time) ==
    LET h0 == CaseInsensitiveDict(j.headers).map
        h1 == IF h0["User-Agent"] = Absent THEN [h0 EXCEPT !["User-Agent"] = "webchanges"] ELSE h0
        h2 == IF Truthy(job_state.old_etag)
              THEN [h1 EXCEPT !["If-None-Match"] = job_state.old_etag] ELSE h1
        h3 == IF job_state.old_timestamp.t # "none"
              THEN [h2 EXCEPT !["If-Modified-Since"] = formatdate(job_state.old_timestamp.n)]
              ELSE h2
        h4 == IF Truthy(j.ignore_cached) \/ job_state.tries > 0
              THEN [h3 EXCEPT !["If-None-Match"] = Absent,
                              !["If-Modified-Since"] = formatdate(0),
                              !["Cache-Control"] = "max-age=172800",
                              !["Expires"] = formatdate(time)]
              ELSE h3
    IN h4

\* self.method and the Content-Type header, from self.data
RequestMethod(j) == IF j.method = "None" THEN "GET" ELSE j.method

ContentTypeHeaders(j, h) ==
    IF j.data # "None" /\ h["Content-Type"] = Absent
    THEN [h EXCEPT !["Content-Type"] = "application/x-www-form-urlencoded"]
    ELSE h

\* the timeout handed to requests.request
RequestTimeout(j) ==
    IF j.timeout.t = "none" THEN PInt(60)
    ELSE IF j.timeout.n = 0 THEN PNone
    ELSE j.timeout

\* self.cookies = {k: str(v) for k, v in self.cookies.items()}
StrCookies(cookies) ==
    IF PyTruthy(cookies)
    THEN PList([i \in 1..Len(cookies.l) |-> PStr(PyStr(cookies.l[i]))])
    ELSE cookies

\* mutant of raise_for_status: the status of the response is not looked at
raise_for_status_never(t) == NoException

\* response.raise_for_status()
raise_for_status(t) ==
    IF t.status >= 400 /\ t.status < 600 THEN Exception("HTTPError", t.status, "") ELSE NoException

\* mutant of not_modified: a 304 response is taken as content
not_modified_never(t) == NoException

\* if response.status_code == requests.codes.not_modified: raise NotModifiedError
not_modified(t) ==
    IF t.status = 304 THEN Exception("NotModifiedError", t.status, "") ELSE NoException

\* mutant of transport_raised: an exception of the transport is swallowed
transport_raised_never(t) == NoException

\* an exception raised by the transport propagates out of retrieve
transport_raised(t) == IF t.kind = "raise" THEN Exception(t.raises, 0, "") ELSE NoException

\* the data retrieve returns: raw bytes or text
Content(j, body) ==
    [form |-> IF filter_chain_needs_bytes(j.filter) THEN "bytes" ELSE "text", body |-> body]

UrlJob_retrieve(j, job_state, t, time) ==
    LET headers == ContentTypeHeaders(j, RequestHeaders(j, job_state, time))
        j1 == [j EXCEPT !.headers = [none |-> FALSE, map |-> headers],
                        !.method = RequestMethod(j)]
        \* file and ftp return before the cookies are converted
        j2 == [j1 EXCEPT !.cookies = StrCookies(j.cookies)]
        request == [sent |-> TRUE, method |-> j1.method, headers |-> headers,
                    timeout |-> RequestTimeout(j)]
        ftp == [sent |-> TRUE, method |-> "RETR", headers |-> [h \in HeaderNames |-> Absent],
                timeout |-> j.timeout]
    IN IF Scheme(j.url) = "file"
       THEN IF transport_raised(t) # NoException
            THEN Retrieved(j1, NoRequest, transport_raised(t), NoContent, "")
            ELSE Retrieved(j1, NoRequest, NoException, Content(j, t.body), "")
       ELSE IF Scheme(j.url) = "ftp"
       THEN IF transport_raised(t) # NoException
            THEN Retrieved(j1, ftp, transport_raised(t), NoContent, "")
            ELSE Retrieved(j1, ftp, NoException, Content(j, t.body), "")
       ELSE IF transport_raised(t) # NoException
       THEN Retrieved(j2, request, transport_raised(t), NoContent, "")
       ELSE IF raise_for_status(t) # NoException
       THEN Retrieved(j2, request, raise_for_status(t), NoContent, "")
       ELSE IF not_modified(t) # NoException
       THEN Retrieved(j2, request, not_modified(t), NoContent, "")
       ELSE LET etag == IF t.redirected THEN "" ELSE t.etag
            IN IF filter_chain_needs_bytes(j.filter)
               THEN Retrieved(j2, request, NoException, Content(j, t.body), etag)
               ELSE IF j.name.n = 0 /\ Title(t.body) # NoText
               THEN Retrieved([j2 EXCEPT !.name = Truncated(Title(t.body), 60)],
                              request, NoException, Content(j, t.body), etag)
               ELSE Retrieved(j2, request, NoException, Content(j, t.body), etag)

\* mutant of ShellJob_retrieve: subprocess.run without check=True
ShellJob_retrieve_unchecked(j, job_state, t, time) ==
    Retrieved(j, NoRequest, NoException, Content(j, t.body), "")

ShellJob_retrieve(j, job_state, t, time) ==
    IF t.status # 0
    THEN Retrieved(j, NoRequest, Exception("ShellError", t.status, ""), NoContent, "")
    ELSE Retrieved(j, NoRequest, NoException, Content(j, t.body), "")

\* self.chromium_revision after the first lines of BrowserJob._retrieve
BrowserJob_chromium_revision(j) ==
    IF j.chromium_revision = "0" THEN "843831" ELSE j.chromium_revision

\* self.wait_for after the wait of BrowserJob._retrieve: a number is multiplied by
\* 1000. wait_for is None, a selector ("#x") or a number in decimal digits, whose
\* product with 1000 has three more zeros
BrowserJob_wait_for(j) ==
    IF j.wait_for \in {"None", "0", "#x"} THEN j.wait_for ELSE j.wait_for \o "000"

\* BrowserJob.retrieve: the page's content is a str whatever the filters are,
\* and the name becomes the whole title
BrowserJob_retrieve(j, job_state, t, time) ==
    LET j1 == [j EXCEPT !.chromium_revision = BrowserJob_chromium_revision(j)]
        j2 == [j1 EXCEPT !.wait_for = BrowserJob_wait_for(j)]
    IN IF t.kind = "raise"
       THEN Retrieved(j1, NoRequest, Exception(t.raises, 0, ""), NoContent, "")
       ELSE IF t.status >= 400 /\ t.status < 600
       THEN Retrieved(j2, NoRequest, Exception("BrowserResponseError", t.status, ""),
                      NoContent, "")
       ELSE IF j.name.n = 0 /\ Title(t.body) # NoText
       THEN Retrieved([j2 EXCEPT !.name = Title(t.body)], NoRequest, NoException,
                      [form |-> "text", body |-> t.body], t.etag)
       ELSE Retrieved(j2, NoRequest, NoException, [form |-> "text", body |-> t.body], t.etag)

\* job.retrieve(job_state), dispatched on the job's class
retrieve(j, job_state, t, time) ==
    CASE j.kind = "url"     -> UrlJob_retrieve(j, job_state, t, time)
      [] j.kind = "browser" -> BrowserJob_retrieve(j, job_state, t, time)
      [] j.kind = "shell"   -> ShellJob_retrieve(j, job_state, t, time)

(***************************************************************************)
(* The cache store and the job runner                                      *)
(***************************************************************************)
\* the record of a GUID the store has never saved: tries 0, no data, no etag
NoEntry == [present |-> FALSE, data |-> NoContent, timestamp |-> PNone, tries |-> 0, etag |-> ""]

Guids == {Sha1(location) : location \in {"u1", "u2", "v1", "c1", "f1", "ftp1"}}

\* cache_storage.load(guid)
load(store, guid) == store[guid]

\* cache_storage.save(guid, data, timestamp, tries, etag)
save(store, guid, content, timestamp, tries, etag) ==
    [store EXCEPT ![guid] = [present |-> TRUE, data |-> content, timestamp |-> timestamp,
                             tries |-> tries, etag |-> etag]]

\* no execution yet
NoExecution ==
    [run |-> 0, verb |-> "none", exception |-> NoException, error_ignored |-> "False",
     prior |-> NoEntry, new_data |-> NoContent, request |-> NoRequest]

\* the job state the runner hands to retrieve
JobState(entry) ==
    [old_data |-> entry.data, old_timestamp |-> entry.timestamp, tries |-> entry.tries,
     old_etag |-> entry.etag]

JobResult(run, guid, verb, suppressed) ==
    [run |-> run, guid |-> guid, verb |-> verb, suppressed |-> suppressed]

\* what one execution leaves behind: the job, the store, the job state and the result
Processed(j, store, state, res) == [job |-> j, store |-> store, state |-> state, result |-> res]

\* an exception other than not-modified: tries increments; the job is reported as
\* error unless job.ignore_error marks the exception as ignorable
process_error(j, store, guid, prior, r, time) ==
    LET ignored == ignore_error(j, r.raised)
    IN Processed(j, save(store, guid, prior.data, prior.timestamp, prior.tries + 1, prior.etag),
                 [run |-> time, verb |-> "error", exception |-> r.raised, error_ignored |-> ignored,
                  prior |-> prior, new_data |-> r.content, request |-> r.request],
                 JobResult(time, guid, "error", Truthy(ignored)))

\* the not-modified signal: unchanged, tries reset, timestamp updated
process_not_modified(j, store, guid, prior, r, time) ==
    Processed(j, save(store, guid, prior.data, PInt(time), 0, prior.etag),
              [run |-> time, verb |-> "unchanged", exception |-> r.raised,
               error_ignored |-> ignore_error(j, r.raised),
               prior |-> prior, new_data |-> r.content, request |-> r.request],
              JobResult(time, guid, "unchanged", FALSE))

\* retrieve returned content: new, unchanged or changed; tries reset
process_success(j, store, guid, prior, r, time) ==
    LET verb == IF ~prior.present \/ prior.data = NoContent THEN "new"
                ELSE IF r.content = prior.data THEN "unchanged" ELSE "changed"
        stored == IF verb = "unchanged"
                  THEN save(store, guid, prior.data, PInt(time), 0, prior.etag)
                  ELSE save(store, guid, r.content, PInt(time), 0, r.etag)
    IN Processed(j, stored,
                 [run |-> time, verb |-> verb, exception |-> NoException, error_ignored |-> "False",
                  prior |-> prior, new_data |-> r.content, request |-> r.request],
                 JobResult(time, guid, verb, FALSE))

\* one execution of a job: start -> fetching -> unchanged | changed | new | error
process(j, store, t, time) ==
    LET guid  == get_guid(j)
        prior == load(store, guid)
        r     == retrieve(j, JobState(prior), t, time)
    IN IF r.raised = NoException THEN process_success(r.job, store, guid, prior, r, time)
       ELSE IF r.raised.type = "NotModifiedError"
       THEN process_not_modified(r.job, store, guid, prior, r, time)
       ELSE process_error(r.job, store, guid, prior, r, time)

(***************************************************************************)
(* Defaults from the configuration. A dict is an object: a directive whose *)
(* value is a dict holds a reference into the heap, and two jobs (or a job *)
(* and the configuration) holding the same reference share the dict.       *)
(***************************************************************************)
Refs == {"oc", "oh", "kc", "kh", "ac", "ah", "new1", "new2", "new3"}

IsRef(v) == v \in Refs

\* a dict object: a plain dict, or a requests.structures.CaseInsensitiveDict
Object(ci, items) == [ci |-> ci, items |-> items]

\* str.lower() on the names of the model's headers
LowerName(k) ==
    CASE k = "X" -> "x" [] k = "Y" -> "y" [] k = "Z" -> "z"
      [] k = "User-Agent" -> "user-agent"
      [] OTHER -> k

\* subkey in mapping
Contains(o, k) ==
    IF o.ci THEN \E i \in 1..Len(o.items) : LowerName(o.items[i][1]) = LowerName(k)
    ELSE Has(o.items, k)

\* mapping[subkey] = subvalue
Store(o, k, v) ==
    IF o.ci /\ Contains(o, k)
    THEN LET i == CHOOSE x \in 1..Len(o.items) : LowerName(o.items[x][1]) = LowerName(k)
         IN Object(o.ci, [o.items EXCEPT ![i] = <<k, v>>])
    ELSE Object(o.ci, SetItem(o.items, k, v))

\* CaseInsensitiveDict(mapping)
RECURSIVE NewCaseInsensitiveDict(_)
NewCaseInsensitiveDict(items) ==
    IF items = <<>> THEN Object(TRUE, <<>>)
    ELSE LET last == items[Len(items)]
         IN Store(NewCaseInsensitiveDict(SubSeq(items, 1, Len(items) - 1)), last[1], last[2])

\* the class attributes of JobBase: the value of a directive the job does not set
ClassDefault(k) ==
    CASE k \in {"url", "command", "user_visible_url"}       -> ""
      [] k = "use_browser"                                 -> "False"
      [] k \in {"block_elements", "diff_filter", "filter"} -> "[]"
      [] k \in {"chromium_revision", "index_number"}       -> "0"
      [] OTHER                                             -> None

\* getattr(job, k)
GetAttr(job, k) == GetOr(job.attrs, k, ClassDefault(k))

\* the names of a set of directives, as a tuple
RECURSIVE TupleOf(_)
TupleOf(ks) ==
    IF ks = {} THEN <<>>
    ELSE LET k == CHOOSE x \in ks : TRUE IN <<k>> \o TupleOf(ks \ {k})

\* JobBase.to_dict : the required and optional directives that are not None
to_dict(job) ==
    LET keys == Required(job.kind) \o TupleOf(Optional(job.kind))
        set  == SelectSeq(keys, LAMBDA k : GetAttr(job, k) # None)
    IN [i \in 1..Len(set) |-> <<set[i], GetAttr(job, set[i])>>]

\* JobBase.serialize
serialize(job) == <<(<<"kind", job.kind>>)>> \o to_dict(job)

\* for subkey, subvalue in defaults[key].items(): add it unless the job's mapping has it
RECURSIVE MergeSubkeys(_, _)
MergeSubkeys(o, items) ==
    IF items = <<>> THEN o
    ELSE LET merged == MergeSubkeys(o, SubSeq(items, 1, Len(items) - 1))
             last   == items[Len(items)]
         IN IF Contains(merged, last[1]) THEN merged ELSE Store(merged, last[1], last[2])

\* a job together with the heap its dict-valued directives point into
Merged(job, h) == [job |-> job, heap |-> h]

\* mutant of set_default: the default fills every falsy attribute
set_default_falsy(m, key, value) ==
    IF key \notin Optional(m.job.kind) THEN m
    ELSE IF ~Truthy(GetAttr(m.job, key))
    THEN Merged([m.job EXCEPT !.attrs = SetItem(@, key, value)], m.heap)
    ELSE m

\* the body of the loop of _set_defaults, for one (key, value) of the defaults
set_default(m, key, value) ==
    IF key \notin Optional(m.job.kind) THEN m
    ELSE IF GetAttr(m.job, key) = None
    THEN Merged([m.job EXCEPT !.attrs = SetItem(@, key, value)], m.heap)
    ELSE IF IsRef(value) /\ IsRef(GetAttr(m.job, key))
    THEN LET ref == GetAttr(m.job, key)
         IN Merged(m.job, [m.heap EXCEPT ![ref] = MergeSubkeys(@, m.heap[value].items)])
    ELSE m

RECURSIVE merge_defaults(_, _)
merge_defaults(m, defaults) ==
    IF defaults = <<>> THEN m
    ELSE LET last == defaults[Len(defaults)]
         IN set_default(merge_defaults(m, SubSeq(defaults, 1, Len(defaults) - 1)), last[1], last[2])

\* JobBase._set_defaults : self.headers becomes a fresh CaseInsensitiveDict, then
\* the defaults are merged into the job's attributes
_set_defaults(m, defaults, fresh) ==
    LET headers == GetAttr(m.job, "headers")
        copy    == NewCaseInsensitiveDict(IF IsRef(headers) THEN m.heap[headers].items ELSE <<>>)
    IN merge_defaults(Merged([m.job EXCEPT !.attrs = SetItem(@, "headers", fresh)],
                             [m.heap EXCEPT ![fresh] = copy]),
                      defaults)

\* JobBase.with_defaults
with_defaults(job, h, cfg) ==
    LET new_job == unserialize(serialize(job))
    IN IF new_job.status # "job" THEN Merged(new_job, h)
       ELSE IF cfg.job_defaults
       THEN _set_defaults(_set_defaults(Merged(new_job, h), cfg.kind, "new1"), cfg.all, "new2")
       ELSE Merged(new_job, h)

(***************************************************************************)
(* BrowserJob._retrieve. Each await is a point where the coroutine can be  *)
(* suspended or the awaited call can raise; jobs are retrieved in parallel *)
(* by the threads of one process, which share os.environ and the imported  *)
(* pyppeteer module.                                                       *)
(***************************************************************************)
\* DEFAULT_CHROMIUM_REVISION[current_platform()]
DEFAULT_CHROMIUM_REVISION == "843831"

\* _revision: the job's chromium_revision, the default when it is not set
Revision(job) ==
    IF job.chromium_revision = "0" THEN DEFAULT_CHROMIUM_REVISION ELSE job.chromium_revision

chrome_web_request_resource_types ==
    {"main_frame", "sub_frame", "stylesheet", "script", "image", "font", "object",
     "xmlhttprequest", "ping", "csp_report", "media", "websocket", "other"}

\* the check of block_elements: "" when it passes, else the exception raised
block_elements_error(job) ==
    IF job.block_elements.t \notin {"str", "list"} THEN "TypeError"
    ELSE IF \E i \in 1..Len(job.block_elements.l) :
                job.block_elements.l[i] \notin chrome_web_request_resource_types
    THEN "ValueError"
    ELSE ""

\* the state of one retrieval: not started
NotStarted ==
    [pc |-> "start", browser |-> "none", launched_with |-> "", response_code |-> 0,
     raised |-> "", returned |-> FALSE, etag |-> "", tasks |-> <<>>, responses |-> <<>>]

\* store_etag(response_event): the status and the ETag of a response for the job's url
store_etag(st, response_event) ==
    IF response_event.own
    THEN [st EXCEPT !.response_code = response_event.status,
                    !.etag = IF response_event.status = 200 THEN response_event.etag ELSE @]
    ELSE st

\* retrieve raises: the coroutine ends
Raise(st, type) == [st EXCEPT !.pc = "done", !.raised = type]

\* await browser.close()
Close(st) == [st EXCEPT !.browser = "closed"]

(***************************************************************************)
(* Declarations of the model                                               *)
(***************************************************************************)
DeclKeys == {"url", "use_browser", "command", "navigate", "kind", "name",
             "method", "unknown_key"}

\* the values a declaration gives a directive: absent is modelled by the key not
\* being in the declaration, "None", "False" and "" are Python's falsy values
DeclValues(k) ==
    CASE k \in {"url", "command"}  -> {"None", "", "a"}
      [] k = "navigate"            -> {"None", "", "n"}
      [] k = "use_browser"         -> {"None", "False", "True"}
      [] k = "kind"                -> {"url", "shell"}
      [] k = "method"              -> {"None", "GET"}
      [] OTHER                     -> {"None", "x"}

NoResult == [status |-> "none"]

(***************************************************************************)
(* Specification of resolution: a declaration is loaded and resolved       *)
(***************************************************************************)
RunIdle ==
    /\ runjob = DefaultJob("url") /\ cache_storage = <<>> /\ clock = 0
    /\ executed = NoExecution /\ report = <<>> /\ log = <<>>

BrowserIdle == bjobs = <<>> /\ bstate = <<>> /\ environ = "unset" /\ pyppeteer = "unset"

DefaultsIdle ==
    /\ heap = <<>> /\ config = <<>> /\ ojob = NoResult /\ njob = NoResult /\ dpc = "idle"

IgnoreIdle == ijob = DefaultJob("url") /\ exc = Exception("none", 0, "") /\ verdict = "unset"

GuidIdle == gjobs = <<>> /\ guids = <<>>

ResolveIdle == pc = "idle" /\ data = <<>> /\ result = NoResult

InitResolve ==
    /\ pc = "loading"
    /\ data = <<>>
    /\ result = NoResult
    /\ IgnoreIdle /\ GuidIdle /\ RunIdle /\ DefaultsIdle /\ BrowserIdle

\* the loader reads one more directive of the declaration
AddDirective ==
    /\ pc = "loading"
    /\ Len(data) < MaxDeclLen
    /\ \E k \in DeclKeys \ Keys(data) : \E v \in DeclValues(k) :
            data' = Append(data, <<k, v>>)
    /\ UNCHANGED <<pc, result, ignoreVars, guidVars, runVars, defaultsVars, browserVars>>

Unserialize ==
    /\ pc = "loading"
    /\ result' = unserialize(data)
    /\ pc' = "resolved"
    /\ UNCHANGED <<data, ignoreVars, guidVars, runVars, defaultsVars, browserVars>>

NextResolve == AddDirective \/ Unserialize

SpecResolve == InitResolve /\ [][NextResolve]_vars


(***************************************************************************)
(* Specification of error classification: ignore_error of a job is called  *)
(* with an exception                                                       *)
(***************************************************************************)
Flags == {"None", "True"}

Statuses == {400, 404, 500, 503}

\* values of the ignore_http_error_codes directive: unset, 0, 404, True, '',
\* '404', '404,500', '4xx', ' 404 , 5XX', [404, '5xx']
IgnoreCodes ==
    {PNone, PInt(0), PInt(404), PBool(TRUE), PStr(<<>>),
     PStr(<<"4", "0", "4">>),
     PStr(<<"4", "0", "4", ",", "5", "0", "0">>),
     PStr(<<"4", "x", "x">>),
     PStr(<<" ", "4", "0", "4", " ", ",", " ", "5", "X", "X">>),
     PList(<<PInt(404), PStr(<<"5", "x", "x">>)>>)}

IgnoreJobs ==
    {[DefaultJob(kind) EXCEPT !.url = IF kind = "shell" THEN "" ELSE "u1",
                              !.command = IF kind = "shell" THEN "c1" ELSE "",
                              !.ignore_connection_errors = c,
                              !.ignore_timeout_errors = t,
                              !.ignore_too_many_redirects = r,
                              !.ignore_http_error_codes = h] :
        kind \in {"url", "browser", "shell"}, c \in Flags, t \in Flags, r \in Flags,
        h \in IgnoreCodes}

Exceptions ==
    {Exception(type, 0, "") :
        type \in {"ConnectionError", "ConnectTimeout", "SSLError", "Timeout", "ReadTimeout",
                  "TooManyRedirects", "NotModifiedError", "ShellError", "OSError"}}
    \cup {Exception(type, status, "") :
            type \in {"HTTPError", "BrowserResponseError"}, status \in Statuses}
    \cup {Exception("PageError", 0, arg) :
            arg \in {"net::ERR_CONNECTION_REFUSED", "net::ERR_TIMED_OUT",
                     "net::ERR_TOO_MANY_REDIRECTS", "net::ERR_ABORTED"}}

InitIgnore ==
    /\ ijob \in IgnoreJobs
    /\ exc \in Exceptions
    /\ verdict = "unset"
    /\ ResolveIdle /\ GuidIdle /\ RunIdle /\ DefaultsIdle /\ BrowserIdle

IgnoreError ==
    /\ verdict = "unset"
    /\ verdict' = ignore_error(ijob, exc)
    /\ UNCHANGED <<ijob, exc, resolveVars, guidVars, runVars, defaultsVars, browserVars>>

NextIgnore == IgnoreError

SpecIgnore == InitIgnore /\ [][NextIgnore]_vars

(***************************************************************************)
(* Specification of job identity: get_guid is called on two jobs           *)
(***************************************************************************)
GuidJobs ==
    {[DefaultJob(kind) EXCEPT !.url = u, !.user_visible_url = v, !.name = n, !.timeout = t] :
        kind \in {"url", "browser"}, u \in {"u1", "u2"}, v \in {"", "v1", "u2"},
        n \in {NoText, Text("x", 1)}, t \in {PNone, PInt(15)}}
    \cup {[DefaultJob("shell") EXCEPT !.command = c, !.name = n] :
            c \in {"c1", "u1"}, n \in {NoText, Text("x", 1)}}

InitGuid ==
    /\ gjobs \in [1..2 -> GuidJobs]
    /\ guids = [i \in 1..2 |-> <<>>]
    /\ ResolveIdle /\ IgnoreIdle /\ RunIdle /\ DefaultsIdle /\ BrowserIdle

GetGuid(i) ==
    /\ Len(guids[i]) < MaxGuidCalls
    /\ guids' = [guids EXCEPT ![i] = Append(@, get_guid(gjobs[i]))]
    /\ UNCHANGED <<gjobs, resolveVars, ignoreVars, runVars, defaultsVars, browserVars>>

NextGuid == \E i \in 1..2 : GetGuid(i)

SpecGuid == InitGuid /\ [][NextGuid]_vars

(***************************************************************************)
(* Specification of the runner: one job is executed again and again, the   *)
(* transport answering each execution in any of its ways                   *)
(***************************************************************************)
Bodies == {"d1", "d2"}

TransportOutcomes(j) ==
    IF j.kind = "shell"
    THEN {Transport("exit", 0, b, "", FALSE, "") : b \in Bodies}
         \cup {Transport("exit", 1, "", "", FALSE, "")}
    ELSE IF Scheme(j.url) \in {"file", "ftp"}
    THEN {Transport("content", 0, b, "", FALSE, "") : b \in Bodies}
         \cup {Transport("raise", 0, "", "", FALSE, "OSError")}
    ELSE IF j.kind = "browser"
    THEN {Transport("response", 200, b, "e1", FALSE, "") : b \in Bodies}
         \cup {Transport("response", 404, "", "", FALSE, "")}
         \cup {Transport("raise", 0, "", "", FALSE, "PageError")}
    ELSE {Transport("response", 200, b, "e1", redirected, "") :
              b \in Bodies, redirected \in BOOLEAN}
         \cup {Transport("response", 304, "", "", FALSE, "")}
         \cup {Transport("response", status, "", "", FALSE, "") : status \in {404, 500}}
         \cup {Transport("raise", 0, "", "", FALSE, type) :
                  type \in {"ConnectionError", "Timeout"}}

RunJobs ==
    {[DefaultJob("url") EXCEPT !.url = "u1",
                               !.ignore_connection_errors = c,
                               !.ignore_http_error_codes = h,
                               !.ignore_cached = i] :
        c \in Flags, h \in {PNone, PInt(404)}, i \in Flags}
    \cup {[DefaultJob("url") EXCEPT !.url = u] : u \in {"f1", "ftp1"}}
    \cup {[DefaultJob("url") EXCEPT !.url = u, !.timeout = PInt(t)] :
            u \in {"u1", "ftp1"}, t \in {0, 15}}
    \cup {[DefaultJob("shell") EXCEPT !.command = "c1"]}
    \cup {[DefaultJob(k[1]) EXCEPT !.url = k[2], !.command = k[3], !.name = n, !.filter = f] :
            k \in {<<"url", "u1", "">>, <<"url", "f1", "">>, <<"url", "ftp1", "">>,
                   <<"browser", "u1", "">>, <<"shell", "", "c1">>},
            n \in {NoText, Text("n", 1)},
            f \in {<<>>, <<"pdf2text">>}}
    \cup {[DefaultJob("url") EXCEPT !.url = "u1", !.data = d, !.method = m] :
            d \in {"None", "k=v"}, m \in {"None", "PUT"}}
    \cup {[DefaultJob("url") EXCEPT !.url = "u1", !.data = "k=v",
                                    !.headers = [none |-> FALSE,
                                                 map |-> [NoHeaders.map EXCEPT
                                                            !["Content-Type"] = "json"]]]}
    \cup {[DefaultJob("browser") EXCEPT !.url = "u1", !.wait_for = "2",
                                        !.chromium_revision = "r1"]}

InitRun ==
    /\ runjob \in RunJobs
    /\ cache_storage = [g \in Guids |-> NoEntry]
    /\ clock = 1
    /\ executed = NoExecution
    /\ report = <<>>
    /\ log = <<>>
    /\ ResolveIdle /\ IgnoreIdle /\ GuidIdle /\ DefaultsIdle /\ BrowserIdle

\* the runner executes the job once
RunJob ==
    /\ clock <= MaxRuns
    /\ \E t \in TransportOutcomes(runjob) :
          LET p == process(runjob, cache_storage, t, clock)
          IN /\ runjob' = p.job
             /\ cache_storage' = p.store
             /\ executed' = p.state
             /\ report' = Append(report, p.result)
             /\ log' = Append(log, t)
    /\ clock' = clock + 1
    /\ UNCHANGED <<resolveVars, ignoreVars, guidVars, defaultsVars, browserVars>>

NextRun == RunJob

SpecRun == InitRun /\ [][NextRun]_vars

(***************************************************************************)
(* Specification of the defaults: a resolved job gets the defaults of a    *)
(* configuration, then the derived job is retrieved                        *)
(***************************************************************************)
\* the dicts of the declaration (oc: cookies, oh: headers), of the defaults of the
\* job's kind (kc, kh) and of the defaults of all kinds (ac, ah)
Heap0 ==
    [r \in Refs |->
        CASE r = "oc" -> Object(FALSE, <<(<<"c", "o">>)>>)
          [] r = "oh" -> Object(FALSE, <<(<<"X", "o">>)>>)
          [] r = "kc" -> Object(FALSE, <<(<<"a", "k">>), (<<"c", "k">>)>>)
          [] r = "kh" -> Object(FALSE, <<(<<"x", "k">>), (<<"Y", "k">>)>>)
          [] r = "ac" -> Object(FALSE, <<(<<"a", "a">>), (<<"b", "a">>)>>)
          [] r = "ah" -> Object(FALSE, <<(<<"y", "a">>), (<<"Z", "a">>)>>)
          [] OTHER    -> Object(FALSE, <<>>)]

DeclaredOptional ==
    {<<"timeout", "5">>, <<"filter", "f">>, <<"cookies", "oc">>, <<"headers", "oh">>}

DefaultsDeclarations ==
    {base \o TupleOf(opt) :
        base \in {<<(<<"url", "a">>)>>,
                  <<(<<"url", "a">>), (<<"use_browser", "True">>)>>,
                  <<(<<"command", "a">>)>>},
        opt \in SUBSET DeclaredOptional}

KindDefaults ==
    {<<"timeout", "7">>, <<"filter", "fk">>, <<"cookies", "kc">>, <<"headers", "kh">>}

AllDefaults ==
    {<<"timeout", "9">>, <<"cookies", "ac">>, <<"headers", "ah">>}

\* config['job_defaults'] is a dict with the defaults of the job's kind and of
\* 'all', or the configuration has no job_defaults
Configs ==
    {[job_defaults |-> TRUE, kind |-> TupleOf(k), all |-> TupleOf(a)] :
        k \in SUBSET KindDefaults, a \in SUBSET AllDefaults}
    \cup {[job_defaults |-> FALSE, kind |-> <<>>, all |-> <<>>]}

InitDefaults ==
    /\ heap = Heap0
    /\ ojob \in {unserialize(d) : d \in DefaultsDeclarations}
    /\ ojob.status = "job"
    /\ config \in Configs
    /\ njob = NoResult
    /\ dpc = "loaded"
    /\ ResolveIdle /\ IgnoreIdle /\ GuidIdle /\ RunIdle /\ BrowserIdle

WithDefaults ==
    /\ dpc = "loaded"
    /\ LET m == with_defaults(ojob, heap, config)
       IN njob' = m.job /\ heap' = m.heap
    /\ dpc' = "derived"
    /\ UNCHANGED <<config, ojob, resolveVars, ignoreVars, guidVars, runVars, browserVars>>

\* UrlJob.retrieve on the derived job: its headers become a fresh
\* CaseInsensitiveDict that gets a User-Agent unless it has one
RetrieveHeaders ==
    /\ dpc = "derived"
    /\ njob.status = "job" /\ njob.kind = "url"
    /\ LET headers == GetAttr(njob, "headers")
           copy    == NewCaseInsensitiveDict(IF IsRef(headers) THEN heap[headers].items ELSE <<>>)
       IN /\ heap' = [heap EXCEPT !["new3"] =
                        IF Contains(copy, "User-Agent") THEN copy
                        ELSE Store(copy, "User-Agent", "webchanges")]
          /\ njob' = [njob EXCEPT !.attrs = SetItem(@, "headers", "new3")]
    /\ dpc' = "retrieved"
    /\ UNCHANGED <<config, ojob, resolveVars, ignoreVars, guidVars, runVars, browserVars>>

NextDefaults == WithDefaults \/ RetrieveHeaders

SpecDefaults == InitDefaults /\ [][NextDefaults]_vars

(***************************************************************************)
(* Specification of browser retrieval: two browser jobs are retrieved in   *)
(* parallel                                                                *)
(***************************************************************************)
\* block_elements as a list of resource types (a str is split at the commas)
Elements(types) == [t |-> "list", n |-> 0, s |-> <<>>, l |-> types]

BrowserJobs ==
    {[chromium_revision |-> "0", block_elements |-> Elements(<<>>), wait_for |-> "None"],
     [chromium_revision |-> "r1", block_elements |-> Elements(<<"image">>), wait_for |-> "#x"],
     [chromium_revision |-> "r2", block_elements |-> Elements(<<"image", "bogus">>),
      wait_for |-> "None"],
     [chromium_revision |-> "r2", block_elements |-> PInt(42), wait_for |-> "None"]}

Threads == 1..2

InitBrowser ==
    /\ bjobs \in [Threads -> BrowserJobs]
    /\ bstate = [i \in Threads |-> NotStarted]
    /\ environ = "unset"
    /\ pyppeteer = "unset"
    /\ ResolveIdle /\ IgnoreIdle /\ GuidIdle /\ RunIdle /\ DefaultsIdle

\* os.environ['PYPPETEER_CHROMIUM_REVISION'] = str(_revision)
BrowserSetRevision(i) ==
    /\ bstate[i].pc = "start"
    /\ environ' = Revision(bjobs[i])
    /\ bstate' = [bstate EXCEPT ![i].pc = "import"]
    /\ UNCHANGED <<bjobs, pyppeteer>>

\* from pyppeteer import launch : the module reads os.environ when it is first imported
BrowserImport(i) ==
    /\ bstate[i].pc = "import"
    /\ pyppeteer' = IF pyppeteer = "unset" THEN environ ELSE pyppeteer
    /\ bstate' = [bstate EXCEPT ![i].pc = "launch"]
    /\ UNCHANGED <<bjobs, environ>>

\* browser = await launch(...)
BrowserLaunch(i) ==
    /\ bstate[i].pc = "launch"
    /\ bstate' = [bstate EXCEPT ![i].pc = "page", ![i].browser = "running",
                                ![i].launched_with = pyppeteer]
    /\ UNCHANGED <<bjobs, environ, pyppeteer>>

\* newPage, setExtraHTTPHeaders (headers, cookies), authenticate
BrowserPage(i) ==
    /\ bstate[i].pc = "page"
    /\ \E raises \in {"", "NetworkError"} :
          bstate' = [bstate EXCEPT ![i] = IF raises # "" THEN Raise(@, raises)
                                         ELSE [@ EXCEPT !.pc = "block"]]
    /\ UNCHANGED <<bjobs, environ, pyppeteer>>

\* the check of block_elements, then setRequestInterception
BrowserBlockElements(i) ==
    /\ bstate[i].pc = "block"
    /\ IF PyTruthy(bjobs[i].block_elements)
       THEN IF block_elements_error(bjobs[i]) # ""
            THEN bstate' = [bstate EXCEPT ![i] = Raise(Close(@), block_elements_error(bjobs[i]))]
            ELSE \E raises \in {"", "NetworkError"} :
                    bstate' = [bstate EXCEPT ![i] = IF raises # "" THEN Raise(@, raises)
                                                   ELSE [@ EXCEPT !.pc = "goto"]]
       ELSE bstate' = [bstate EXCEPT ![i].pc = "goto"]
    /\ UNCHANGED <<bjobs, environ, pyppeteer>>

\* await page.goto(self.url, options=options), with the response the page got
BrowserGoto(i) ==
    /\ bstate[i].pc = "goto"
    /\ \E raises \in {"", "PageError", "TimeoutError"}, code \in {0, 200, 404} :
          bstate' = [bstate EXCEPT ![i] =
                        IF raises = "PageError"
                        THEN IF code >= 400 /\ code < 600
                             THEN Raise(Close([@ EXCEPT !.response_code = code]),
                                        "BrowserResponseError")
                             ELSE Raise(Close([@ EXCEPT !.response_code = code]), "PageError")
                        ELSE IF raises # ""
                        THEN Raise([@ EXCEPT !.response_code = code], raises)
                        ELSE [@ EXCEPT !.pc = "wait", !.response_code = code]]
    /\ UNCHANGED <<bjobs, environ, pyppeteer>>

\* await page.waitFor(self.wait_for, options=options)
BrowserWait(i) ==
    /\ bstate[i].pc = "wait"
    /\ IF Truthy(bjobs[i].wait_for)
       THEN \E raises \in {"", "TimeoutError"} :
                bstate' = [bstate EXCEPT ![i] = IF raises # "" THEN Raise(@, raises)
                                               ELSE [@ EXCEPT !.pc = "content"]]
       ELSE bstate' = [bstate EXCEPT ![i].pc = "content"]
    /\ UNCHANGED <<bjobs, environ, pyppeteer>>

\* content = await page.content(); await browser.close(); the response code is checked
BrowserContent(i) ==
    /\ bstate[i].pc = "content"
    /\ \E raises \in {"", "NetworkError"} :
          bstate' = [bstate EXCEPT ![i] =
                        IF raises # "" THEN Raise(@, raises)
                        ELSE IF @.response_code >= 400 /\ @.response_code < 600
                        THEN Raise(Close(@), "BrowserResponseError")
                        ELSE [Close(@) EXCEPT !.pc = "done", !.returned = TRUE]]
    /\ UNCHANGED <<bjobs, environ, pyppeteer>>

NextBrowser ==
    \E i \in Threads :
        /\ \/ BrowserSetRevision(i) \/ BrowserImport(i) \/ BrowserLaunch(i) \/ BrowserPage(i)
           \/ BrowserBlockElements(i) \/ BrowserGoto(i) \/ BrowserWait(i) \/ BrowserContent(i)
        /\ UNCHANGED <<resolveVars, ignoreVars, guidVars, runVars, defaultsVars>>

SpecBrowser == InitBrowser /\ [][NextBrowser]_vars

(***************************************************************************)
(* Specification of the response callbacks of one browser retrieval, from  *)
(* page.on('response', ...) on: every response the page receives creates a *)
(* task that runs store_etag, and the event loop runs the retrieval         *)
(* coroutine and the tasks in turn, switching at the awaits                 *)
(***************************************************************************)
\* the responses the page can receive: for the job's url (own) or for another
Responses ==
    {[own |-> TRUE, status |-> 200, etag |-> e] : e \in {"e1", "e2"}}
    \cup {[own |-> TRUE, status |-> c, etag |-> ""] : c \in {304, 404}}
    \cup {[own |-> FALSE, status |-> 404, etag |-> "e3"]}

InitCallbacks ==
    /\ bjobs \in [{1} -> {j \in BrowserJobs : block_elements_error(j) = ""}]
    /\ bstate = [i \in {1} |-> [NotStarted EXCEPT !.pc = "goto", !.browser = "running"]]
    /\ environ = Revision(bjobs[1])
    /\ pyppeteer = environ
    /\ ResolveIdle /\ IgnoreIdle /\ GuidIdle /\ RunIdle /\ DefaultsIdle

\* the page receives a response: asyncio.create_task(store_etag(response_event))
ResponseReceived ==
    /\ bstate[1].browser = "running"
    /\ Len(bstate[1].responses) < MaxResponses
    /\ \E r \in Responses :
          bstate' = [bstate EXCEPT ![1].responses = Append(@, r),
                                   ![1].tasks = Append(@, r)]
    /\ UNCHANGED <<bjobs, environ, pyppeteer>>

\* the event loop runs the oldest task
StoreEtag ==
    /\ bstate[1].pc # "done"
    /\ bstate[1].tasks # <<>>
    /\ bstate' = [bstate EXCEPT ![1] = [store_etag(@, Head(@.tasks)) EXCEPT !.tasks = Tail(@)]]
    /\ UNCHANGED <<bjobs, environ, pyppeteer>>

\* await page.goto(self.url, options=options) and its except clause
PageGoto ==
    /\ bstate[1].pc = "goto"
    /\ \E raises \in {"", "PageError"} :
          bstate' = [bstate EXCEPT ![1] =
                        IF raises = "PageError"
                        THEN IF @.response_code >= 400 /\ @.response_code < 600
                             THEN Raise(Close(@), "BrowserResponseError")
                             ELSE Raise(Close(@), "PageError")
                        ELSE [@ EXCEPT !.pc = IF Truthy(bjobs[1].wait_for)
                                              THEN "wait" ELSE "content"]]
    /\ UNCHANGED <<bjobs, environ, pyppeteer>>

\* await page.waitFor(self.wait_for, options=options)
PageWaitFor ==
    /\ bstate[1].pc = "wait"
    /\ bstate' = [bstate EXCEPT ![1].pc = "content"]
    /\ UNCHANGED <<bjobs, environ, pyppeteer>>

\* content = await page.content()
PageContent ==
    /\ bstate[1].pc = "content"
    /\ bstate' = [bstate EXCEPT ![1].pc = "close"]
    /\ UNCHANGED <<bjobs, environ, pyppeteer>>

\* await browser.close(), then the response code is checked and (content, etag)
\* returned; asyncio.run cancels the tasks that are left
PageClose ==
    /\ bstate[1].pc = "close"
    /\ bstate' = [bstate EXCEPT ![1] =
                    IF @.response_code >= 400 /\ @.response_code < 600
                    THEN Raise(Close(@), "BrowserResponseError")
                    ELSE [Close(@) EXCEPT !.pc = "done", !.returned = TRUE]]
    /\ UNCHANGED <<bjobs, environ, pyppeteer>>

NextCallbacks ==
    /\ \/ ResponseReceived \/ StoreEtag \/ PageGoto \/ PageWaitFor \/ PageContent \/ PageClose
    /\ UNCHANGED <<resolveVars, ignoreVars, guidVars, runVars, defaultsVars>>

SpecCallbacks == InitCallbacks /\ [][NextCallbacks]_vars

(***************************************************************************)
(* Properties of resolution                                                *)
(***************************************************************************)
Kinds == {Subclasses[i] : i \in 1..Len(Subclasses)}

AllRequired == UNION {RequiredSet(k) : k \in Kinds}

\* every required field of the variant is present in d with a truthy value
Satisfied(d, kind) == \A r \in RequiredSet(kind) : Has(d, r) /\ Truthy(Get(d, r))

Candidates(d) == {k \in Kinds : Satisfied(d, k)}

TruthyCount(d, kind) == Cardinality({r \in RequiredSet(kind) : Has(d, r) /\ Truthy(Get(d, r))})

Highest(d) == {k \in Candidates(d) : \A o \in Candidates(d) : TruthyCount(d, o) <= TruthyCount(d, k)}

\* the keys of d that are no directive of the variant
Foreign(d, kind) == Keys(d) \ (RequiredSet(kind) \cup Optional(kind))

\* the keys of d that are no directive of the variant and that resolution does not
\* remove before validation (the required directives of the other variants)
Unrecognized(d, kind) == Foreign(d, kind) \ AllRequired

IsJob(kind) == result.status = "job" /\ result.kind = kind

FailsUnrecognized(d, kind) ==
    /\ result.status = "ValueError"
    /\ result.msg = "unrecognized"
    /\ result.key \in Unrecognized(d, kind)

Permuted(d) ==
    {[i \in 1..Len(d) |-> d[p[i]]] : p \in Permutations(1..Len(d))}

\* the variant of an outcome, or the kind of failure
Outcome(r) == IF r.status = "job" THEN r.kind ELSE r.msg

\* C1 as stated: a declaration in which exactly one variant has all its required
\* fields truthy resolves to an instance of that variant.
C1_AsStated ==
    pc = "resolved" =>
        \A kind \in Kinds : Candidates(data) = {kind} => IsJob(kind)

\* C1: when, after the rewrite of the deprecated directives, exactly one variant
\* has all its required fields truthy, resolve returns an instance of exactly
\* that variant, unless a key of the declaration is unrecognized for that
\* variant: then it fails with the unrecognized-directive ValueError. It never
\* returns another variant.
C1_UniqueVariant ==
    pc = "resolved" =>
        LET d == Rewritten(data)
        IN \A kind \in Kinds : Candidates(d) = {kind} =>
              IF Unrecognized(d, kind) = {} THEN IsJob(kind) ELSE FailsUnrecognized(d, kind)

\* the test's case: a truthy command, a name and no url resolve to the shell variant
C1_Witness ==
    /\ pc = "resolved"
    /\ Candidates(data) = {"shell"}
    /\ Has(data, "name") /\ ~Has(data, "url")
    /\ IsJob("shell")

\* C2 as stated: a declaration satisfying several variants resolves to the one
\* with the highest count of truthy required fields, whatever the order of its fields.
C2_AsStated ==
    pc = "resolved" =>
        (Cardinality(Candidates(data)) > 1 =>
            /\ \E kind \in Highest(data) : IsJob(kind)
            /\ \A d2 \in Permuted(data) : Outcome(unserialize(d2)) = Outcome(result))

\* C2: when, after the rewrite of the deprecated directives, several variants have
\* all their required fields truthy, resolve selects one with the highest count of
\* truthy required fields: it returns an instance of it, or fails with the
\* unrecognized-directive ValueError when a key is unrecognized for it; the
\* outcome is the same for every ordering of the declaration's fields.
C2_HighestCount ==
    pc = "resolved" =>
        LET d == Rewritten(data)
        IN Cardinality(Candidates(d)) > 1 =>
            /\ \E kind \in Highest(d) :
                  IF Unrecognized(d, kind) = {} THEN IsJob(kind) ELSE FailsUnrecognized(d, kind)
            /\ \A d2 \in Permuted(data) : Outcome(unserialize(d2)) = Outcome(result)

\* url and use_browser: true, declared in this order or the other, give the browser variant
C2_Witness ==
    /\ pc = "resolved"
    /\ Candidates(data) = {"url", "browser"}
    /\ Len(data) >= 2 /\ data[1][1] = "use_browser"
    /\ IsJob("browser")

\* C3 as stated: resolve never returns a job for a declaration with a key that is
\* neither a required nor an optional field of the variant it resolves to (the
\* deprecated 'kind', which is dropped with a warning, set aside).
C3_AsStated ==
    pc = "resolved" =>
        (result.status = "job" => Foreign(data, result.kind) \subseteq {"kind"})

\* C3: resolve never returns a job for a declaration with a key that is neither a
\* required nor an optional field of the resolved variant, except the keys it
\* removes by design ('kind' and the required fields of the other variants);
\* every other declared key is an attribute of the job.
C3_UnrecognizedFails ==
    pc = "resolved" =>
        (result.status = "job" =>
            /\ Foreign(data, result.kind) \subseteq (AllRequired \cup {"kind"})
            /\ \A k \in Keys(data) \ (AllRequired \cup {"kind"}) :
                  Has(result.attrs, k) /\ Get(result.attrs, k) = Get(data, k))

C3_Witness ==
    /\ pc = "resolved"
    /\ Candidates(data) = {"url"}
    /\ Has(data, "unknown_key")
    /\ result.status = "ValueError" /\ result.msg = "unrecognized" /\ result.key = "unknown_key"

\* C4 as stated: a declaration in which no variant has all its required fields
\* truthy fails with a ValueError, a different one for a declaration of exactly
\* one field than for a declaration of several fields.
C4_AsStated ==
    pc = "resolved" =>
        (Candidates(data) = {} =>
            /\ result.status = "ValueError"
            /\ Len(data) = 1 => result.msg = "no_value_or_no_match"
            /\ Len(data) > 1 => result.msg = "no_match")

\* C4: when, after the rewrite of the deprecated directives (navigate rewritten,
\* kind removed), no variant has all its required fields truthy, resolve fails
\* with a ValueError and returns no job; the error for a rewritten declaration
\* of exactly one field differs from the error for any other number of fields.
C4_NoVariantFails ==
    pc = "resolved" =>
        LET d == Rewritten(data)
        IN Candidates(d) = {} =>
            /\ result.status = "ValueError"
            /\ result.msg = IF Len(d) = 1 THEN "no_value_or_no_match" ELSE "no_match"

\* a required field that is present but empty, among several fields
C4_Witness ==
    /\ pc = "resolved"
    /\ Has(data, "url") /\ Get(data, "url") = ""
    /\ Len(data) > 1 /\ ~Has(data, "kind")
    /\ result.status = "ValueError" /\ result.msg = "no_match"


(***************************************************************************)
(* Properties of the job identity                                          *)
(***************************************************************************)
\* the location string: user_visible_url if set, otherwise url, for URL and
\* browser jobs; the command for shell jobs
LocationString(job) ==
    IF job.kind = "shell" THEN job.command
    ELSE IF job.user_visible_url # "" THEN job.user_visible_url ELSE job.url

\* C5: get_guid is a function of the job's location string alone: two jobs with
\* equal location strings have equal GUIDs whatever their other fields, and
\* every call on the same job returns the same GUID.
C5_GuidOfLocation ==
    \A i, j \in DOMAIN guids :
        LocationString(gjobs[i]) = LocationString(gjobs[j]) =>
            \A a \in 1..Len(guids[i]), b \in 1..Len(guids[j]) : guids[i][a] = guids[j][b]

\* two jobs of different variants and different url, name and timeout, with the
\* same location string, each asked twice
C5_Witness ==
    /\ DOMAIN guids = 1..2
    /\ Len(guids[1]) = 2 /\ Len(guids[2]) = 2
    /\ gjobs[1].kind = "url" /\ gjobs[2].kind = "browser"
    /\ gjobs[1].url # gjobs[2].url
    /\ gjobs[1].name # gjobs[2].name /\ gjobs[1].timeout # gjobs[2].timeout
    /\ LocationString(gjobs[1]) = LocationString(gjobs[2])
    /\ guids[1][1] = guids[2][2]

(***************************************************************************)
(* Properties of the error classification                                  *)
(***************************************************************************)
\* the codes a str or list value of ignore_http_error_codes configures
ConfiguredCodes(codes) ==
    IF codes.t = "str"
    THEN {Lower(Strip(Split(codes.s)[i])) : i \in 1..Len(Split(codes.s))}
    ELSE IF codes.t = "list"
    THEN {Lower(Strip(PyStr(codes.l[i]))) : i \in 1..Len(codes.l)}
    ELSE {}

\* the configured integer, a configured code equal to the decimal string of the
\* status, or the configured class wildcard of the status
StatusConfigured(codes, status) ==
    \/ codes.t = "int" /\ codes.n = status
    \/ Digits(status) \in ConfiguredCodes(codes)
    \/ <<Digit(status \div 100), "x", "x">> \in ConfiguredCodes(codes)

\* C10: for a URL job with ignore_http_error_codes configured and an HTTP status
\* error, ignore_error marks the error ignorable if and only if the status is
\* the configured integer, one of the configured codes, or in a configured class.
C10_StatusMatch ==
    (/\ verdict # "unset"
     /\ ijob.kind = "url"
     /\ exc.type = "HTTPError"
     /\ PyTruthy(ijob.ignore_http_error_codes))
        => (Truthy(verdict) <=> StatusConfigured(ijob.ignore_http_error_codes, exc.status))


(***************************************************************************)
(* Properties of the runner                                                *)
(***************************************************************************)
\* the transport failed: it raised, answered with an error status, or the
\* command exited with a non-zero status
Failing(t) ==
    \/ t.kind = "raise"
    \/ t.kind = "response" /\ t.status >= 400 /\ t.status < 600
    \/ t.kind = "exit" /\ t.status # 0

\* the transport delivered content
Succeeding(t) ==
    \/ t.kind = "content"
    \/ t.kind = "response" /\ t.status = 200
    \/ t.kind = "exit" /\ t.status = 0

\* the exception a failing transport makes retrieval fail with
FailureOf(t) ==
    IF t.kind = "raise" THEN Exception(t.raises, 0, "")
    ELSE IF t.kind = "response" /\ t.status >= 400 /\ t.status < 600
    THEN Exception(IF runjob.kind = "browser" THEN "BrowserResponseError" ELSE "HTTPError",
                   t.status, "")
    ELSE IF t.kind = "exit" /\ t.status # 0 THEN Exception("ShellError", t.status, "")
    ELSE NoException

Executions == Len(log)

LastTransport == log[Len(log)]

StoredEntry == cache_storage[get_guid(runjob)]

\* C6: starting from an absent cache entry, after N consecutive failing
\* executions the stored tries equals N, and after the next successful
\* execution of the same GUID the stored tries equals 0.
C6_TriesCount ==
    Executions >= 1 =>
        /\ (\A i \in 1..Executions : Failing(log[i])) => StoredEntry.tries = Executions
        /\ ((\A i \in 1..(Executions - 1) : Failing(log[i])) /\ Succeeding(LastTransport))
              => StoredEntry.tries = 0

\* two failing executions, then a successful one
C6_Witness ==
    /\ Executions = 3
    /\ Failing(log[1]) /\ Failing(log[2]) /\ Succeeding(log[3])
    /\ executed.prior.tries = 2
    /\ StoredEntry.tries = 0

\* C7: an execution whose retrieval fails with an exception that ignore_error
\* does not mark as ignorable (and that is not the not-modified signal) ends in
\* the error outcome, and that result is the one in the report.
C7_ErrorReported ==
    Executions >= 1 =>
        LET e == FailureOf(LastTransport)
        IN (e # NoException /\ ~Truthy(ignore_error(runjob, e))) =>
              /\ executed.verb = "error"
              /\ executed.exception = e
              /\ report # <<>>
              /\ report[Len(report)] = JobResult(executed.run, get_guid(runjob), "error", FALSE)

\* the test's scenario: a URL that cannot be reached, executed twice
C7_Witness ==
    /\ Executions = 2
    /\ log[1].raises = "ConnectionError" /\ log[2].raises = "ConnectionError"
    /\ ~Truthy(runjob.ignore_connection_errors)
    /\ StoredEntry.tries = 2
    /\ report[Len(report)].verb = "error" /\ ~report[Len(report)].suppressed

\* C8: when the transport reports HTTP 304, URL retrieve returns no content and
\* raises NotModifiedError, which no ignore_error classifies as ignorable; the
\* execution ends as unchanged with stored tries 0 and the stored data and etag
\* it had before.
C8_NotModified ==
    (Executions >= 1 /\ LastTransport.kind = "response" /\ LastTransport.status = 304) =>
        /\ executed.exception.type = "NotModifiedError"
        /\ executed.new_data = NoContent
        /\ \A j \in IgnoreJobs : ~Truthy(ignore_error(j, executed.exception))
        /\ executed.verb = "unchanged"
        /\ StoredEntry.tries = 0
        /\ StoredEntry.data = executed.prior.data
        /\ StoredEntry.etag = executed.prior.etag

\* a 304 answer to a conditional request, after content with an ETag was stored
C8_Witness ==
    /\ Executions >= 2
    /\ LastTransport.status = 304
    /\ executed.request.headers["If-None-Match"] = "e1"
    /\ executed.prior.data = [form |-> "text", body |-> "d1"]
    /\ executed.verb = "unchanged"
    /\ StoredEntry.data = [form |-> "text", body |-> "d1"] /\ StoredEntry.etag = "e1"

\* C9: when retrieval fails with an exception for which ignore_error returns
\* true or a string, the stored tries is still incremented by one and the job
\* is not reported to the user as an error.
C9_IgnoredStillCounts ==
    Executions >= 1 =>
        LET e == FailureOf(LastTransport)
        IN (e # NoException /\ Truthy(ignore_error(runjob, e))) =>
              /\ StoredEntry.tries = executed.prior.tries + 1
              /\ \A i \in 1..Len(report) :
                    report[i].run = executed.run =>
                        ~(report[i].verb = "error" /\ ~report[i].suppressed)

\* an ignored connection error after an earlier failure
C9_Witness ==
    /\ Executions = 2
    /\ LastTransport.raises = "ConnectionError"
    /\ runjob.ignore_connection_errors = "True"
    /\ executed.error_ignored = "True"
    /\ executed.prior.tries = 1
    /\ StoredEntry.tries = 2
    /\ report[Len(report)].suppressed


(***************************************************************************)
(* Properties of the defaults                                              *)
(***************************************************************************)
\* the dicts a job's directives refer to
DictsOf(job) == {job.attrs[i][2] : i \in {x \in 1..Len(job.attrs) : IsRef(job.attrs[x][2])}}

\* C11: with_defaults leaves the original job untouched: after the call, and
\* after a later change of the derived job, every dict-valued directive of the
\* original (headers, cookies) has the contents it had before the call.
C11_OriginalUntouched ==
    dpc \in {"derived", "retrieved"} =>
        \A ref \in DictsOf(ojob) : heap[ref] = Heap0[ref]

\* the fields of the model whose value is a mapping, and the subkeys of each
MappingFields == {"cookies", "headers"}

Subkeys(f) == IF f = "headers" THEN {"x", "y", "z"} ELSE {"a", "b", "c"}

\* the value a mapping gives a subkey (for headers whatever the case), Absent without one
Lookup(o, f, k) ==
    LET same(a, b) == IF f = "headers" THEN LowerName(a) = LowerName(b) ELSE a = b
        at == {i \in 1..Len(o.items) : same(o.items[i][1], k)}
    IN IF at = {} THEN Absent ELSE o.items[CHOOSE i \in at : TRUE][2]

\* the layers a field's value can come from: the declaration, the defaults of
\* the job's kind, the defaults of all kinds
Layers == <<ojob.attrs, IF config.job_defaults THEN config.kind ELSE <<>>,
                        IF config.job_defaults THEN config.all ELSE <<>> >>

\* the value of a field by the layering rule
RECURSIVE LayeredValue(_, _)
LayeredValue(f, n) ==
    IF n > Len(Layers) THEN ClassDefault(f)
    ELSE IF Has(Layers[n], f) THEN Get(Layers[n], f)
    ELSE LayeredValue(f, n + 1)

\* the value of a subkey of a mapping field by the layering rule
RECURSIVE LayeredSubvalue(_, _, _)
LayeredSubvalue(f, k, n) ==
    IF n > Len(Layers) THEN Absent
    ELSE IF Has(Layers[n], f) /\ Lookup(Heap0[Get(Layers[n], f)], f, k) # Absent
    THEN Lookup(Heap0[Get(Layers[n], f)], f, k)
    ELSE LayeredSubvalue(f, k, n + 1)

DerivedSubvalue(f, k) ==
    IF IsRef(GetAttr(njob, f)) THEN Lookup(heap[GetAttr(njob, f)], f, k) ELSE Absent

FollowsLayers(f) ==
    IF f \in MappingFields
    THEN \A k \in Subkeys(f) : DerivedSubvalue(f, k) = LayeredSubvalue(f, k, 1)
    ELSE GetAttr(njob, f) = LayeredValue(f, 1)

\* C12: after with_defaults each optional field of the derived job has the
\* declared value if the declaration set it, else the default of the job's
\* kind, else the default of all kinds, else it is unset; for a mapping the
\* same holds for each subkey.
C12_Layered ==
    (dpc = "derived" /\ njob.status = "job") =>
        \A f \in {"timeout", "filter", "cookies", "headers"} \cap Optional(njob.kind) :
            FollowsLayers(f)

\* the rule for the fields whose class attribute is None
C12_LayeredNone ==
    (dpc = "derived" /\ njob.status = "job") =>
        \A f \in {"timeout", "cookies", "headers"} \cap Optional(njob.kind) :
            FollowsLayers(f)


(***************************************************************************)
(* Properties of URL retrieval                                             *)
(***************************************************************************)
\* the latest execution sent an HTTP(S) request
HttpRequestSent == executed.request.sent /\ runjob.kind = "url" /\ Scheme(runjob.url) = "https"

\* the job ignores the cache or has failed before: the request is to be unconditional
Unconditional == Truthy(runjob.ignore_cached) \/ executed.prior.tries > 0

\* C13: the HTTP request carries the prior entry's etag as If-None-Match and its
\* timestamp as If-Modified-Since only when ignore_cached is not set and the
\* prior tries is 0 (and then it does); when ignore_cached is set or tries > 0
\* it carries no If-None-Match and its If-Modified-Since is not the prior
\* timestamp.
C13_ConditionalRequest ==
    HttpRequestSent =>
        LET h     == executed.request.headers
            prior == executed.prior
        IN /\ Unconditional =>
                /\ h["If-None-Match"] = Absent
                /\ prior.timestamp.t # "none" =>
                        h["If-Modified-Since"] # formatdate(prior.timestamp.n)
           /\ ~Unconditional =>
                /\ Truthy(prior.etag) => h["If-None-Match"] = prior.etag
                /\ prior.timestamp.t # "none" =>
                        h["If-Modified-Since"] = formatdate(prior.timestamp.n)

\* content with an ETag is stored, the next execution fails after a conditional
\* request, and the one after it is unconditional
C13_Witness ==
    /\ HttpRequestSent
    /\ Executions = 3
    /\ ~Truthy(runjob.ignore_cached)
    /\ executed.prior.tries = 1
    /\ executed.prior.etag = "e1"
    /\ executed.prior.timestamp.t # "none"
    /\ executed.request.headers["If-None-Match"] = Absent
    /\ executed.request.headers["If-Modified-Since"] = formatdate(0)


(***************************************************************************)
(* Properties of browser retrieval                                         *)
(***************************************************************************)
\* C14: in every browser retrieval in which the browser was launched, the
\* browser is closed before retrieve returns or raises, on every exit path.
C14_BrowserClosed ==
    \A i \in DOMAIN bstate :
        (bstate[i].pc = "done" /\ bstate[i].browser # "none") => bstate[i].browser = "closed"

\* C19: no retrieval writes process-wide state that another retrieval reads:
\* under every interleaving a browser job launches the chromium revision
\* configured for that job.
C19_OwnRevision ==
    \A i \in DOMAIN bstate :
        bstate[i].browser # "none" => bstate[i].launched_with = Revision(bjobs[i])

\* the timeout of a network request by the rule: 60 seconds when the job sets
\* none, no timeout (None) when it sets 0, else the job's timeout
TimeoutByRule(timeout) ==
    IF timeout.t = "none" THEN PInt(60)
    ELSE IF timeout.n = 0 THEN PNone
    ELSE timeout

\* C15: for every network request of a URL job (the HTTP(S) request and the FTP
\* connection) the effective timeout is 60 seconds when the job's timeout is
\* unset, no timeout when it is 0, and t seconds when it is a positive t.
C15_Timeout ==
    (runjob.kind = "url" /\ executed.request.sent) =>
        executed.request.timeout = TimeoutByRule(runjob.timeout)

\* the rule for the HTTP(S) request alone
C15_HttpTimeout ==
    HttpRequestSent => executed.request.timeout = TimeoutByRule(runjob.timeout)

DeclaresNavigate(d) == Truthy(Get(d, "navigate")) /\ ~Truthy(Get(d, "use_browser"))

\* the browser job the rewrite of navigate leads to
IsNavigateJob ==
    /\ IsJob("browser")
    /\ Get(result.attrs, "use_browser") = "True"
    /\ Get(result.attrs, "url") = GetOr(data, "url", Get(data, "navigate"))

\* C17 as stated: a declaration with a truthy navigate and no truthy use_browser
\* resolves to the browser variant with use_browser true and with url equal to
\* the navigate value, or to the declared url; it never fails validation.
C17_AsStated ==
    (pc = "resolved" /\ DeclaresNavigate(data)) => IsNavigateJob

\* C17: such a declaration resolves to the browser variant with use_browser true,
\* with the declared url if it has a truthy one and with the navigate value as url
\* if it has no url key, unless a key is unrecognized for the browser variant:
\* then it fails with the unrecognized-directive ValueError; with a declared url
\* that is falsy it fails validation.
C17_NavigateRewrite ==
    (pc = "resolved" /\ DeclaresNavigate(data)) =>
        IF Has(data, "url") /\ ~Truthy(Get(data, "url"))
        THEN result.status = "ValueError"
        ELSE IF Unrecognized(Rewritten(data), "browser") # {}
        THEN FailsUnrecognized(Rewritten(data), "browser")
        ELSE IsNavigateJob /\ Get(result.attrs, "navigate") = Get(data, "navigate")

\* navigate alone: its value becomes the url of a browser job
C17_Witness ==
    /\ pc = "resolved"
    /\ Get(data, "navigate") = "n" /\ ~Has(data, "url") /\ ~Has(data, "use_browser")
    /\ IsJob("browser")
    /\ Get(result.attrs, "url") = "n" /\ Get(result.attrs, "use_browser") = "True"

\* the declaration with one more directive at position i + 1
Inserted(d, i, kv) == SubSeq(d, 1, i) \o <<kv>> \o SubSeq(d, i + 1, Len(d))

KindValues == {"None", "", "url", "browser", "shell", "x"}

\* C18: the variant is inferred and never taken from a declared kind: resolving a
\* declaration with an added kind, whatever its value and place, gives the outcome
\* of resolving it without kind (the same variant and field values, or the same
\* validation failure), and the job has no kind field from the declaration.
C18_KindIgnored ==
    pc = "resolved" =>
        /\ result.status = "job" => ~Has(result.attrs, "kind")
        /\ IF Has(data, "kind")
           THEN result = unserialize(Pop(data, "kind"))
           ELSE \A k \in KindValues, i \in 0..Len(data) :
                    unserialize(Inserted(data, i, <<"kind", k>>)) = result

\* a declared kind that contradicts the inferred variant
C18_Witness ==
    /\ pc = "resolved"
    /\ Get(data, "kind") = "shell"
    /\ Truthy(Get(data, "url")) /\ ~Has(data, "command")
    /\ IsJob("url")
    /\ ~Has(result.attrs, "kind")

\* the required fields of the other variants that the variant does not require
Leftover(kind) == AllRequired \ RequiredSet(kind)

\* C20: after resolve selects a variant, the job holds no declared value for a
\* field that is in another variant's required set but not in the selected
\* variant's; such fields are removed before validation and cause no validation
\* error, and the other declared fields are kept.
C20_LeftoverRemoved ==
    pc = "resolved" =>
        LET d == Rewritten(data)
        IN Candidates(d) # {} =>
            /\ result.status = "job" =>
                /\ Keys(result.attrs) \cap Leftover(result.kind) = {}
                /\ \A k \in Keys(d) \ Leftover(result.kind) :
                        Has(result.attrs, k) /\ Get(result.attrs, k) = Get(d, k)
            /\ result.status = "ValueError" =>
                    result.msg = "unrecognized" /\ result.key \notin AllRequired
            /\ (\A kind \in Highest(d) : Keys(d) \subseteq
                    (RequiredSet(kind) \cup Optional(kind) \cup Leftover(kind)))
                    => result.status = "job"

\* use_browser: false on a URL declaration
C20_Witness ==
    /\ pc = "resolved"
    /\ Truthy(Get(data, "url")) /\ Get(data, "use_browser") = "False"
    /\ IsJob("url")
    /\ ~Has(result.attrs, "use_browser")

\* the place of a variant in the order of registration
Rank(kind) == CASE kind = "url" -> 1 [] kind = "browser" -> 2 [] kind = "shell" -> 3

\* C21: when several candidate variants have the same (highest) required-field
\* count, resolve selects the one registered first (URL before browser before
\* shell): the declaration is validated against it and becomes a job of it.
C21_FirstRegistered ==
    pc = "resolved" =>
        LET d == Rewritten(data)
        IN Cardinality(Highest(d)) > 1 =>
              LET first == CHOOSE k \in Highest(d) : \A o \in Highest(d) : Rank(k) <= Rank(o)
              IN IF Unrecognized(d, first) = {} THEN IsJob(first)
                 ELSE FailsUnrecognized(d, first)

\* a truthy url and a truthy command, with a directive only the URL variant has
C21_Witness ==
    /\ pc = "resolved"
    /\ Truthy(Get(data, "url")) /\ Truthy(Get(data, "command")) /\ Has(data, "method")
    /\ Highest(Rewritten(data)) = {"url", "shell"}
    /\ IsJob("url")
    /\ ~Has(result.attrs, "command")

(***************************************************************************)
(* Properties of the error classes                                         *)
(***************************************************************************)
\* the same job as a job of the other variant, and the HTTP status error of
\* the other variant with the same status
AsVariant(job, kind) == [job EXCEPT !.kind = kind]

StatusError(kind, status) ==
    Exception(IF kind = "url" THEN "HTTPError" ELSE "BrowserResponseError", status, "")

\* C22: for every status code and every ignore_http_error_codes configuration,
\* browser ignore_error on a BrowserResponseError gives the same
\* ignorable / not ignorable verdict as URL ignore_error on an HTTP status
\* error with that status.
C22_SamePredicate ==
    (verdict # "unset" /\ exc.type \in {"HTTPError", "BrowserResponseError"}
                       /\ ijob.kind \in {"url", "browser"}
                       /\ exc = StatusError(ijob.kind, exc.status)) =>
        \A other \in {"url", "browser"} :
            Truthy(ignore_error(AsVariant(ijob, other), StatusError(other, exc.status)))
                <=> Truthy(verdict)

\* a browser job with a list of codes and a response of a listed status
C22_Witness ==
    /\ ijob.kind = "browser"
    /\ exc = Exception("BrowserResponseError", 404, "")
    /\ ijob.ignore_http_error_codes.t = "list"
    /\ verdict = "True"
    /\ ignore_error(AsVariant(ijob, "url"), Exception("HTTPError", 404, "")) = "True"

\* the error classes: requests raises ConnectTimeout both as a connection error
\* and as a timeout
ConnectionErrors == {"ConnectionError", "ConnectTimeout", "SSLError"}

Timeouts == {"Timeout", "ConnectTimeout", "ReadTimeout"}

\* C23 as stated: for a URL job a connection error is ignorable exactly when
\* ignore_connection_errors is set, a timeout exactly when ignore_timeout_errors
\* is set, a too-many-redirects error exactly when ignore_too_many_redirects is
\* set, an HTTP status error only through ignore_http_error_codes, and with no
\* ignore_* setting no error is ignorable.
C23_AsStated ==
    (verdict # "unset" /\ ijob.kind = "url") =>
        /\ exc.type \in ConnectionErrors =>
                (Truthy(verdict) <=> Truthy(ijob.ignore_connection_errors))
        /\ exc.type \in Timeouts =>
                (Truthy(verdict) <=> Truthy(ijob.ignore_timeout_errors))
        /\ exc.type = "TooManyRedirects" =>
                (Truthy(verdict) <=> Truthy(ijob.ignore_too_many_redirects))
        /\ exc.type = "HTTPError" =>
                (Truthy(verdict) => PyTruthy(ijob.ignore_http_error_codes))
        /\ exc.type \notin (ConnectionErrors \cup Timeouts \cup {"TooManyRedirects", "HTTPError"})
                => ~Truthy(verdict)

\* C23: for a URL job an error is ignorable exactly when the flag of a class it
\* belongs to is set (a connect timeout belongs to the connection errors and to
\* the timeouts), an HTTP status error only when ignore_http_error_codes is set;
\* a flag never makes an error outside its class ignorable, and with no
\* ignore_* setting no error is ignorable.
C23_Independent ==
    (verdict # "unset" /\ ijob.kind = "url") =>
        IF exc.type = "HTTPError"
        THEN Truthy(verdict) => PyTruthy(ijob.ignore_http_error_codes)
        ELSE Truthy(verdict) <=>
                \/ exc.type \in ConnectionErrors /\ Truthy(ijob.ignore_connection_errors)
                \/ exc.type \in Timeouts /\ Truthy(ijob.ignore_timeout_errors)
                \/ exc.type = "TooManyRedirects" /\ Truthy(ijob.ignore_too_many_redirects)

\* a read timeout with only the flags of the other classes set is not ignorable
C23_Witness ==
    /\ ijob.kind = "url"
    /\ exc.type = "ReadTimeout"
    /\ Truthy(ijob.ignore_connection_errors) /\ Truthy(ijob.ignore_too_many_redirects)
    /\ PyTruthy(ijob.ignore_http_error_codes)
    /\ ~Truthy(ijob.ignore_timeout_errors)
    /\ verdict = "False"

(***************************************************************************)
(* C24: for URL and browser jobs, when no name was configured and the       *)
(* retrieved document has a title, retrieve sets the name to the title cut  *)
(* at 60 characters; a derived name is never longer than 60 characters and  *)
(* a configured name is never overwritten.                                  *)
(***************************************************************************)
\* the document a successful transport delivered
Delivered(t) ==
    \/ t.kind = "response" /\ t.status = 200
    \/ t.kind = "content"

C24_NameKept == runjob.name.n # 0 => runjob'.name = runjob.name

C24_NameFromTitle ==
    LET t == log'[Len(log')]
    IN (/\ runjob.kind \in {"url", "browser"}
        /\ Scheme(runjob.url) = "https"
        /\ ~filter_chain_needs_bytes(runjob.filter)
        /\ runjob.name.n = 0
        /\ Delivered(t)
        /\ Title(t.body) # NoText)
       => runjob'.name = Truncated(Title(t.body), 60)

C24_TitleName ==
    [][C24_NameKept /\ C24_NameFromTitle /\ runjob'.name.n <= 60]_vars

C24_UrlTitleName ==
    [][runjob.kind = "url" => C24_NameKept /\ C24_NameFromTitle /\ runjob'.name.n <= 60]_vars

C24_BrowserNameKept == [][runjob.kind = "browser" => C24_NameKept]_vars

(***************************************************************************)
(* C25: for every variant and transport (HTTP, file, FTP, browser, shell), *)
(* a successful retrieve returns raw bytes when the job's filter chain      *)
(* needs bytes, and decoded text otherwise.                                 *)
(***************************************************************************)
\* the last retrieve returned data
Returned ==
    /\ Executions >= 1
    /\ \/ Delivered(LastTransport)
       \/ LastTransport.kind = "exit" /\ LastTransport.status = 0

FormByFilters(j) == IF filter_chain_needs_bytes(j.filter) THEN "bytes" ELSE "text"

C25_BytesOrText == Returned => executed.new_data.form = FormByFilters(runjob)

C25_ExceptBrowser ==
    (Returned /\ runjob.kind # "browser") => executed.new_data.form = FormByFilters(runjob)

\* every transport other than the browser has returned bytes
C25_Witness ==
    /\ Returned /\ executed.new_data.form = "bytes"
    /\ runjob.kind # "browser"

(***************************************************************************)
(* Specification of job identity over a job's life: a resolved job gets    *)
(* the defaults of a configuration, and the derived job is executed again   *)
(* and again                                                                *)
(***************************************************************************)
IdentityDeclarations ==
    {base \o TupleOf(opt) :
        base \in {<<(<<"url", "u1">>)>>,
                  <<(<<"url", "u1">>), (<<"use_browser", "True">>)>>,
                  <<(<<"command", "c1">>)>>},
        opt \in SUBSET {<<"user_visible_url", "v1">>, <<"wait_for", "2">>}}

\* defaults that name the directives a location is computed from
IdentityConfigs ==
    {[job_defaults |-> TRUE, kind |-> k, all |-> a] :
        k \in {<<>>, <<(<<"user_visible_url", "u2">>)>>,
               <<(<<"url", "u2">>), (<<"command", "u2">>)>>,
               <<(<<"url", "u2">>), (<<"command", "u2">>), (<<"user_visible_url", "u2">>)>>},
        a \in {<<>>, <<(<<"user_visible_url", "v1">>), (<<"url", "u2">>)>>}}
    \cup {[job_defaults |-> FALSE, kind |-> <<>>, all |-> <<>>]}

\* the job the runner executes: the attributes of a resolved job
Attributes(job) ==
    [DefaultJob(job.kind) EXCEPT !.url = GetAttr(job, "url"),
                                 !.command = GetAttr(job, "command"),
                                 !.user_visible_url = GetAttr(job, "user_visible_url"),
                                 !.wait_for = GetAttr(job, "wait_for")]

InitIdentity ==
    /\ heap = Heap0
    /\ ojob \in {unserialize(d) : d \in IdentityDeclarations}
    /\ ojob.status = "job"
    /\ config \in IdentityConfigs
    /\ njob = NoResult
    /\ dpc = "loaded"
    /\ ResolveIdle /\ IgnoreIdle /\ GuidIdle /\ RunIdle /\ BrowserIdle

\* the runner takes the derived job
Execute ==
    /\ dpc = "derived"
    /\ njob.status = "job"
    /\ runjob' = Attributes(njob)
    /\ cache_storage' = [g \in Guids |-> NoEntry]
    /\ clock' = 1
    /\ dpc' = "executing"
    /\ UNCHANGED <<executed, report, log, heap, config, ojob, njob,
                   resolveVars, ignoreVars, guidVars, browserVars>>

ExecuteAgain == dpc = "executing" /\ RunJob

NextIdentity == WithDefaults \/ Execute \/ ExecuteAgain

SpecIdentity == InitIdentity /\ [][NextIdentity]_vars

(***************************************************************************)
(* C26: no sequence of retrieve calls, ignore_error, format_error or        *)
(* serialize changes a job's location or GUID, the job derived by           *)
(* with_defaults has the GUID of the job it was derived from, for every     *)
(* configuration of defaults, and retrieval changes transient fields only.  *)
(***************************************************************************)
Fields == DOMAIN DefaultJob("url")

\* the transient fields the claim lists (switches is not a field of the model)
Transient == {"name", "headers", "method", "cookies"}

\* the fields BrowserJob._retrieve normalises in place besides
Normalised == {"chromium_revision", "wait_for"}

SameIdentity(j1, j2) ==
    /\ get_location(j1) = get_location(j2)
    /\ get_guid(j1) = get_guid(j2)

IdentityKept ==
    /\ ojob' = ojob
    /\ dpc' = "derived" =>
         /\ njob'.status = "job"
         /\ SameIdentity(Attributes(njob'), Attributes(ojob))
    /\ dpc' = "executing" => SameIdentity(runjob', Attributes(ojob))

C26_AsStated ==
    [][/\ IdentityKept
       /\ dpc = "executing" => \A f \in Fields \ Transient : runjob'[f] = runjob[f]]_vars

C26_Identity ==
    [][/\ IdentityKept
       /\ dpc = "executing" =>
            \A f \in Fields \ (Transient \cup Normalised) : runjob'[f] = runjob[f]]_vars

\* a job with a user_visible_url default in its configuration has been retrieved
\* three times, with a success and a failure
C26_Witness ==
    /\ dpc = "executing" /\ Executions = 3
    /\ Has(config.kind, "user_visible_url")
    /\ \E i, k \in 1..3 : Delivered(log[i]) /\ ~Delivered(log[k])
    /\ get_guid(runjob) = get_guid(Attributes(ojob))

(***************************************************************************)
(* C27: under every interleaving of the store_etag tasks with the          *)
(* retrieval coroutine, a response for the job's url with status 400..599   *)
(* makes retrieve raise BrowserResponseError instead of returning content,  *)
(* and the returned etag is that of the status-200 response for the job's   *)
(* url (the empty string when there is none).                               *)
(***************************************************************************)
\* the responses for the job's url, in the order the page received them
OwnResponses(st) == SelectSeq(st.responses, LAMBDA r : r.own)

ErrorResponse(st) ==
    \E k \in 1..Len(OwnResponses(st)) :
        OwnResponses(st)[k].status >= 400 /\ OwnResponses(st)[k].status < 600

\* the etag of the last status-200 response for the job's url
OkEtag(st) ==
    LET ok == SelectSeq(OwnResponses(st), LAMBDA r : r.status = 200)
    IN IF ok = <<>> THEN "" ELSE ok[Len(ok)].etag

C27_CallbackOrder ==
    \A i \in DOMAIN bstate :
        bstate[i].pc = "done" =>
            /\ ErrorResponse(bstate[i]) =>
                   bstate[i].raised = "BrowserResponseError" /\ ~bstate[i].returned
            /\ bstate[i].returned => bstate[i].etag = OkEtag(bstate[i])

\* every task has run before the coroutine ends, and the page received one
\* response for the job's url at most
C27_OneResponseStored ==
    \A i \in DOMAIN bstate :
        (/\ bstate[i].pc = "done"
         /\ bstate[i].tasks = <<>>
         /\ Len(OwnResponses(bstate[i])) <= 1) =>
            /\ ErrorResponse(bstate[i]) =>
                   bstate[i].raised = "BrowserResponseError" /\ ~bstate[i].returned
            /\ bstate[i].returned => bstate[i].etag = OkEtag(bstate[i])

(***************************************************************************)
(* C28: the conditional and cache-override headers of a URL retrieve depend *)
(* on the job's declared headers and on that call's prior cache entry only: *)
(* after any sequence of retrieve calls, a call with an empty prior etag,   *)
(* tries = 0 and ignore_cached unset sends no If-None-Match and no          *)
(* Cache-Control / Expires left over from an earlier call.                  *)
(***************************************************************************)
C28_NoLeftoverHeaders ==
    (/\ HttpRequestSent
     /\ ~Truthy(executed.prior.etag)
     /\ executed.prior.tries = 0
     /\ ~Truthy(runjob.ignore_cached)) =>
        LET h == executed.request.headers
        IN h["If-None-Match"] = Absent /\ h["Cache-Control"] = Absent /\ h["Expires"] = Absent

\* the first retrieve of a job object sends none of these headers
C28_FirstCall ==
    (/\ HttpRequestSent
     /\ Executions = 1
     /\ ~Truthy(runjob.ignore_cached)) =>
        LET h == executed.request.headers
        IN h["If-None-Match"] = Absent /\ h["Cache-Control"] = Absent /\ h["Expires"] = Absent

(***************************************************************************)
(* C29: with_defaults never modifies the configuration: after deriving a    *)
(* job, job_defaults[kind] and job_defaults['all'], their nested mappings   *)
(* included, equal their initial values.                                    *)
(***************************************************************************)
\* the dicts the configuration's defaults refer to
ConfigDicts ==
    {config.kind[i][2] : i \in {x \in 1..Len(config.kind) : IsRef(config.kind[x][2])}}
    \cup {config.all[i][2] : i \in {x \in 1..Len(config.all) : IsRef(config.all[x][2])}}

C29_ConfigUntouched ==
    dpc \in {"derived", "retrieved"} =>
        \A ref \in ConfigDicts : heap[ref] = Heap0[ref]

\* the headers defaults are never modified: the job's headers are a fresh dict
C29_HeadersUntouched ==
    dpc \in {"derived", "retrieved"} =>
        \A ref \in ConfigDicts \cap {"kh", "ah"} : heap[ref] = Heap0[ref]

(***************************************************************************)
(* C30: a URL job that declares request data but no method sends its        *)
(* request with method POST (and a Content-Type of                          *)
(* application/x-www-form-urlencoded when none is declared); a URL job with  *)
(* neither data nor method sends GET; a declared method is used as declared. *)
(***************************************************************************)
MethodByRule(j) ==
    IF j.method # "None" THEN j.method
    ELSE IF j.data # "None" THEN "POST" ELSE "GET"

\* the first retrieve of a job as it was declared sends an HTTP(S) request
FirstRequest == log = <<>> /\ runjob.kind = "url" /\ Scheme(runjob.url) = "https"

C30_Method ==
    [][FirstRequest =>
         /\ executed'.request.method = MethodByRule(runjob)
         /\ runjob.data # "None" =>
              executed'.request.headers["Content-Type"] =
                 IF runjob.headers.map["Content-Type"] = Absent
                 THEN "application/x-www-form-urlencoded"
                 ELSE runjob.headers.map["Content-Type"]]_vars

\* but for the method of a job with data and no method
C30_ExceptDataOnly ==
    [][FirstRequest =>
         /\ (runjob.data = "None" \/ runjob.method # "None") =>
                executed'.request.method = MethodByRule(runjob)
         /\ (runjob.data # "None" /\ runjob.method = "None") =>
                executed'.request.method = "GET"
         /\ runjob.data # "None" =>
              executed'.request.headers["Content-Type"] =
                 IF runjob.headers.map["Content-Type"] = Absent
                 THEN "application/x-www-form-urlencoded"
                 ELSE runjob.headers.map["Content-Type"]]_vars

====
